---- MODULE Spec2Model ----
(***************************************************************************)
(* Triage database-agnostic core: entity-date table generation,            *)
(* protected-groups generation and model-group identity resolution, run    *)
(* through the PostgreSQL and the Oracle adapter.                          *)
(*                                                                         *)
(* A table is a bag of rows: a function from every possible row to the     *)
(* number of copies the table holds.  As-of-dates are datetime.date values *)
(* (entity_date_table_generators.py:43), modelled as day numbers; the      *)
(* as_of_date column of the entity-date table is a timestamp.              *)
(***************************************************************************)
EXTENDS Integers, Sequences, FiniteSets, TLC

(***************************************************************************)
(* Bounds of the model.                                                    *)
(***************************************************************************)
MaxEntity == 2
MaxDay == 2
MaxDates == 2
MaxQueryRows == 2
MaxLabelRows == 2
MaxCohortRows == 1
MaxExternalRows == 1
MaxAttrRecords == 2
MaxFeatures == 2
MaxCalls == 2
TicksPerDay == 2
MaxStoredRows == 1
MaxUrlParts == 2
MaxRacers == 2
MaxThreads == 2

Entities == 1..MaxEntity
Days == 1..MaxDay
\* A timestamp column holds a day and a time of day; a date holds a day.
Timestamps == {d * TicksPerDay + t : d \in Days, t \in 0..(TicksPerDay - 1)}
\* 'YYYY-MM-DD'::timestamp, TO_DATE('YYYY-MM-DD', 'YYYY-MM-DD'): midnight of the day
Midnight(d) == d * TicksPerDay
\* ts::DATE, TRUNC(ts): the day of a timestamp
DateOf(ts) == ts \div TicksPerDay
Adapters == {"none", "postgresql", "oracle"}
\* Knowledge dates of attribute records: any day up to the last as-of-date.
KnowledgeDays == 0..MaxDay
Attributes == {"a", "b"}
Hashes == {"h1", "h2"}
NULL == "NULL"

VARIABLES
    cfg,          \* the generator as constructed: class, query, labels table, replace, db_adapter
    queryResult,  \* source data: the rows the user query returns for each as-of-date
    labelsExists, \* whether the labels table exists
    labels,       \* the labels table, projected on (entity_id, as_of_date)
    cohortTable,  \* the previously built cohort table, projected on (entity_id, as_of_date)
    edExists,     \* whether the entity-date table exists
    edTable,      \* the entity-date table
    gen,          \* the running generate_entity_date_table call
    pre,          \* history: the entity-date table when the latest call started
    last,         \* history: the dates of the previous call, if no one wrote since
    extRows,      \* rows written to the entity-date table by other writers so far
    pgAdapter,    \* the db_adapter of the protected-groups generators
    fromObj,      \* the attributes source: (entity_id, knowledge_date, attribute) records
    pgExists,     \* whether the protected-groups table exists
    pgIndexed,    \* whether it carries the (cohort_hash, as_of_date) index
    pgTable,      \* the protected-groups table
    pgen,         \* the running generate_all_dates call
    mgAdapter,    \* the db_adapter handed to ModelGrouper.get_model_group_id
    model_group_keys, \* ModelGrouper.model_group_keys
    procedure_exists, \* whether the backend has the get_model_group_id function
    model_groups, \* the stored model groups
    mgLog,        \* the resolved calls so far: what was asked, what was passed, the id
    mgLast,       \* the last call: the store before it, what it returned and the
                  \* calls it made on its raw connection
    noop,         \* the last call on a no-op generator: what it did and returned
    schema_factory, \* the module global _schema_factory: None or the bound adapter
    drivers,      \* the backend drivers that can be imported
    sfLast,       \* the last schema-factory operation and what it returned
    racers,       \* the concurrent invocations: of generate_entity_date_table, or of
                  \* the functions of schema_factory
    raced         \* history: an invocation inserted after another wrote behind its check

edVars == <<cfg, queryResult, labelsExists, labels, cohortTable, edExists, edTable,
            gen, pre, last, extRows>>

pgVars == <<pgAdapter, fromObj, pgExists, pgIndexed, pgTable, pgen>>

mgVars == <<mgAdapter, model_group_keys, procedure_exists, model_groups, mgLog, mgLast>>

sfVars == <<schema_factory, drivers, sfLast>>

raceVars == <<racers, raced>>

\* What the steps of each component leave alone.
notEdVars == <<pgVars, mgVars, noop, sfVars, raceVars>>
notPgVars == <<edVars, mgVars, noop, sfVars, raceVars>>
notMgVars == <<edVars, pgVars, noop, sfVars, raceVars>>

vars == <<edVars, pgVars, mgVars, noop, sfVars, raceVars>>

\* The components a specification does not run.
NoNoOpCalls == noop = [call |-> "none", raised |-> FALSE, returned |-> "None", stmts |-> <<>>]

NoSchemaFactory == schema_factory = "None" /\ drivers = {} /\ sfLast = [op |-> "none"]

NoRace == racers = <<>> /\ raced = FALSE

(***************************************************************************)
(* Bags.                                                                   *)
(***************************************************************************)
Range(s) == {s[i] : i \in DOMAIN s}

SeqsUpTo(S, n) == UNION {[1..k -> S] : k \in 0..n}

\* The bag holding the elements of sequence s, over the row domain R.
BagOfSeq(R, s) == [r \in R |-> Cardinality({i \in DOMAIN s : s[i] = r})]

BagsUpTo(R, n) == {BagOfSeq(R, s) : s \in SeqsUpTo(R, n)}

EmptyTable(R) == [r \in R |-> 0]

Support(tbl) == {r \in DOMAIN tbl : tbl[r] > 0}

RECURSIVE SumOver(_, _)
SumOver(tbl, S) ==
    IF S = {} THEN 0
    ELSE LET r == CHOOSE x \in S : TRUE IN tbl[r] + SumOver(tbl, S \ {r})

RowCount(tbl) == SumOver(tbl, DOMAIN tbl)

\* insert into tbl: one more copy of every row of the set rows
InsertRows(tbl, rows) == [r \in DOMAIN tbl |-> tbl[r] + (IF r \in rows THEN 1 ELSE 0)]

(***************************************************************************)
(* Data the generators read.                                               *)
(***************************************************************************)
\* The backend a generator talks to: the fallback statements are PostgreSQL's.
Backend(adapter) == IF adapter = "oracle" THEN "oracle" ELSE "postgresql"

\* The values of the column active: boolean on PostgreSQL (postgresql.py:208),
\* NUMBER(1) on Oracle (oracle.py:236).
ActiveValues(backend) == IF backend = "oracle" THEN {"1", "0"} ELSE {"true", "false"}

\* The literal the insert statements write: true, or 1.
ActiveTrue(backend) == IF backend = "oracle" THEN "1" ELSE "true"

EDRows(backend) ==
    [entity_id : Entities, as_of_date : Timestamps, active : ActiveValues(backend)]

EntityDates == [entity_id : Entities, as_of_date : Days]

\* EntityDateTableGenerator(query, ..., labels_table_name, replace, db_adapter) and
\* SubsetEntityDateTableGenerator(query, ..., replace, cohort_table, db_adapter).
Configs ==
    {c \in [class : {"base", "subset"}, hasQuery : BOOLEAN, hasLabels : BOOLEAN,
            replace : BOOLEAN, adapter : Adapters] :
        c.class = "subset" => ~c.hasLabels}

\* Variant: the branch `elif self.labels_table_name:` is a plain else, so a generator
\* with neither source runs labels-derivation.
Mode_NoConfigCheck(c) ==
    IF c.class = "subset" THEN (IF c.hasQuery THEN "subset" ELSE "none")
    ELSE IF c.hasQuery THEN "query"
    ELSE "labels"

\* The branch generate_entity_date_table takes.
Mode(c) ==
    IF c.class = "subset" THEN (IF c.hasQuery THEN "subset" ELSE "none")
    ELSE IF c.hasQuery THEN "query"
    ELSE IF c.hasLabels THEN "labels"
    ELSE "none"

QueryResults == [Days -> BagsUpTo(Entities, MaxQueryRows)]
NoQueryResult == [d \in Days |-> EmptyTable(Entities)]
LabelTables == BagsUpTo(EntityDates, MaxLabelRows)
CohortTables == BagsUpTo(EntityDates, MaxCohortRows)

\* The table a failed call started from, when there is no such call.
NoOrigin == [exists |-> FALSE, table |-> <<>>]

\* failed, seq, before: the previous call was ended by a failing statement; its
\* as-of-dates in order; the table the first of the failed attempts started from
NoCall == [valid |-> FALSE, dates |-> {}, failed |-> FALSE, seq |-> <<>>,
           before |-> NoOrigin]

\* repeat: history, whether the call repeats the previous one (the same as-of-dates,
\* nothing written to the table in between)
\* stmts: history, the statements the call has passed to conn.execute so far
\* faulted: the call was ended by a statement that failed in the backend
\* resume, origin: history, the call repeats a failed call over the same dates in
\* the same order, and the table the failed attempts started from
Idle == [pc |-> "idle", dates |-> <<>>, i |-> 0, outcome |-> "none", logged |-> {},
         repeat |-> FALSE, stmts |-> <<>>, faulted |-> FALSE, resume |-> FALSE,
         origin |-> NoOrigin]

InitEntityDate ==
    /\ cfg \in Configs
    /\ queryResult \in (IF cfg.hasQuery THEN QueryResults ELSE {NoQueryResult})
    /\ labelsExists \in (IF Mode(cfg) = "labels" THEN BOOLEAN ELSE {cfg.hasLabels})
    /\ labels \in (IF Mode(cfg) = "labels" /\ labelsExists THEN LabelTables
                   ELSE {EmptyTable(EntityDates)})
    /\ cohortTable \in (IF Mode(cfg) = "subset" THEN CohortTables
                        ELSE {EmptyTable(EntityDates)})
    /\ edExists = FALSE
    /\ edTable = EmptyTable(EDRows(Backend(cfg.adapter)))
    /\ gen = Idle
    /\ pre = [exists |-> FALSE, table |-> edTable]
    /\ last = NoCall
    /\ extRows = 0
    /\ pgAdapter = cfg.adapter
    /\ fromObj = {}
    /\ pgExists = FALSE
    /\ pgIndexed = FALSE
    /\ pgTable = [r \in {} |-> 0]
    /\ pgen = [pc |-> "idle"]
    /\ mgAdapter = cfg.adapter
    /\ model_group_keys = {}
    /\ procedure_exists = FALSE
    /\ model_groups = {}
    /\ mgLog = {}
    /\ mgLast = [valid |-> FALSE]
    /\ NoNoOpCalls /\ NoSchemaFactory /\ NoRace

(***************************************************************************)
(* The statements of the adapters, by what they do to the tables.          *)
(***************************************************************************)
Min(a, b) == IF a < b THEN a ELSE b

\* select count(*) from t where as_of_date = ts
MatchCount(tbl, ts) == SumOver(tbl, {r \in DOMAIN tbl : r.as_of_date = ts})

\* select 1 from t where as_of_date = 'd' limit 1: the number of rows returned
PgEntityDateCheck(tbl, d) == Min(MatchCount(tbl, Midnight(d)), 1)

\* SELECT 1 FROM t WHERE as_of_date = TO_DATE('d', 'YYYY-MM-DD') AND ROWNUM <= 1
OraEntityDateCheck(tbl, d) == Min(MatchCount(tbl, Midnight(d)), 1)

\* insert into t select q.entity_id, 'd'::timestamp, true from (query) q group by 1, 2, 3
PgEntityDateInsert(tbl, d, q) ==
    InsertRows(tbl, {[entity_id |-> e, as_of_date |-> Midnight(d), active |-> "true"] :
                        e \in Support(q)})

\* INSERT INTO t SELECT q.entity_id, TO_DATE('d', ..), 1 FROM (query) q GROUP BY ...
OraEntityDateInsert(tbl, d, q) ==
    InsertRows(tbl, {[entity_id |-> e, as_of_date |-> Midnight(d), active |-> "1"] :
                        e \in Support(q)})

\* Variant: the join is on entity_id alone, whatever the date of the cohort row.
SubsetJoin_AnyDate(d, q, cohort) ==
    {c.entity_id : c \in {x \in Support(cohort) : x.entity_id \in Support(q)}}

\* The entity ids of: subset s inner join cohort c
\*   on s.entity_id = c.entity_id and c.as_of_date = 'd'
SubsetJoin(d, q, cohort) ==
    {c.entity_id : c \in {x \in Support(cohort) :
                            x.as_of_date = d /\ x.entity_id \in Support(q)}}

PgSubsetEntityDateInsert(tbl, d, q, cohort) ==
    InsertRows(tbl, {[entity_id |-> e, as_of_date |-> Midnight(d), active |-> "true"] :
                        e \in SubsetJoin(d, q, cohort)})

OraSubsetEntityDateInsert(tbl, d, q, cohort) ==
    InsertRows(tbl, {[entity_id |-> e, as_of_date |-> Midnight(d), active |-> "1"] :
                        e \in SubsetJoin(d, q, cohort)})

\* select distinct l.entity_id, l.as_of_date from labels l
\*   left join (select distinct as_of_date from t) c on l.as_of_date::DATE = c.as_of_date::DATE
\*   where c.as_of_date IS NULL
LabelsAntiJoin(tbl, lbl) ==
    {l \in Support(lbl) : ~\E c \in Support(tbl) : l.as_of_date = DateOf(c.as_of_date)}

PgLabelsToEntityDate(tbl, lbl) ==
    InsertRows(tbl, {[entity_id |-> l.entity_id, as_of_date |-> Midnight(l.as_of_date),
                      active |-> "true"] : l \in LabelsAntiJoin(tbl, lbl)})

OraLabelsToEntityDate(tbl, lbl) ==
    InsertRows(tbl, {[entity_id |-> l.entity_id, as_of_date |-> Midnight(l.as_of_date),
                      active |-> "1"] : l \in LabelsAntiJoin(tbl, lbl)})

(***************************************************************************)
(* triage.database_reflection: the helpers the generators call.            *)
(***************************************************************************)
table_has_data(exists, tbl) == exists /\ RowCount(tbl) > 0

\* duplicates on the columns (entity_id, as_of_date)
table_has_duplicates(exists, tbl) ==
    /\ exists
    /\ \E e \in Entities, d \in Timestamps :
          SumOver(tbl, {r \in DOMAIN tbl : r.entity_id = e /\ r.as_of_date = d}) > 1

(***************************************************************************)
(* EntityDateTableGenerator and SubsetEntityDateTableGenerator.            *)
(***************************************************************************)
\* Variant: the existence check finds nothing, so no date is ever skipped.
CheckStatement_NoSkip(adapter, tbl, d) == 0

\* The statement the generator executes to look for rows of date d.
CheckStatement(adapter, tbl, d) ==
    CASE adapter = "postgresql" -> PgEntityDateCheck(tbl, d)
      [] adapter = "oracle" -> OraEntityDateCheck(tbl, d)
      [] OTHER -> Min(MatchCount(tbl, Midnight(d)), 1)

\* Variant: the select is not grouped, one row per row of the query result.
InsertStatement_NoGroupBy(adapter, tbl, d, q) ==
    [r \in DOMAIN tbl |->
        tbl[r] + (IF r.as_of_date = Midnight(d) /\ r.active = ActiveTrue(Backend(adapter))
                  THEN q[r.entity_id] ELSE 0)]

\* The insert statement of the query-replay loop.
InsertStatement(adapter, tbl, d, q) ==
    CASE adapter = "postgresql" -> PgEntityDateInsert(tbl, d, q)
      [] adapter = "oracle" -> OraEntityDateInsert(tbl, d, q)
      [] OTHER -> InsertRows(tbl, {[entity_id |-> e, as_of_date |-> Midnight(d), active |-> "true"] :
                                      e \in Support(q)})

\* The insert statement of the subset generator's loop.
SubsetInsertStatement(adapter, tbl, d, q, cohort) ==
    CASE adapter = "postgresql" -> PgSubsetEntityDateInsert(tbl, d, q, cohort)
      [] adapter = "oracle" -> OraSubsetEntityDateInsert(tbl, d, q, cohort)
      [] OTHER -> InsertRows(tbl, {[entity_id |-> e, as_of_date |-> Midnight(d), active |-> "true"] :
                                      e \in SubsetJoin(d, q, cohort)})

\* The insert statement of labels-derivation.
LabelsInsertStatement(adapter, tbl, lbl) ==
    CASE adapter = "postgresql" -> PgLabelsToEntityDate(tbl, lbl)
      [] adapter = "oracle" -> OraLabelsToEntityDate(tbl, lbl)
      [] OTHER -> InsertRows(tbl, {[entity_id |-> l.entity_id, as_of_date |-> Midnight(l.as_of_date),
                                    active |-> "true"] : l \in LabelsAntiJoin(tbl, lbl)})

dataVars == <<cfg, queryResult, labelsExists, labels, cohortTable>>

\* Where the text of a statement comes from: `if self.db_adapter:` takes it from a
\* method of the adapter, the else branch builds it in the generator.
Via(adapter) == IF adapter = "none" THEN "inline" ELSE "adapter"

\* The number of the next `with self.db_engine.begin() as conn:` block of the call.
NextTxn(stmts) == IF stmts = <<>> THEN 1 ELSE stmts[Len(stmts)].txn + 1

\* One `with self.db_engine.begin() as conn:` block: the statements ss, each
\* <<kind, via, index of the as-of-date it is for (0: none)>>, executed in order on
\* the connection of one transaction.
Begin(stmts, ss) ==
    stmts \o [k \in 1..Len(ss) |->
                [kind |-> ss[k][1], via |-> ss[k][2], date |-> ss[k][3],
                 txn |-> NextTxn(stmts)]]

\* Where the loop over as_of_dates goes after the date at index i.
AfterDate(g, c) ==
    IF g.i < Len(g.dates) THEN [g EXCEPT !.pc = "check", !.i = g.i + 1]
    ELSE [g EXCEPT !.pc = IF c.class = "subset" THEN "has_duplicates" ELSE "has_data",
                   !.i = 0]

\* generate_entity_date_table(as_of_dates): entry, deciding the mode.
Generate ==
    /\ gen.pc = "idle"
    /\ \E ds \in SeqsUpTo(Days, MaxDates) :
          LET resume == last.valid /\ last.failed /\ last.seq = ds
              g == [Idle EXCEPT !.dates = ds,
                                !.repeat = last.valid /\ last.dates = Range(ds),
                                !.resume = resume,
                                !.origin = IF resume THEN last.before ELSE NoOrigin]
          IN gen' = CASE Mode(cfg) \in {"query", "labels", "subset"} ->
                            [g EXCEPT !.pc = "create"]
                       [] cfg.class = "subset" ->
                            [g EXCEPT !.pc = "has_duplicates"]
                       [] OTHER ->
                            [g EXCEPT !.pc = "done", !.outcome = "no_cohort"]
    /\ pre' = [exists |-> edExists, table |-> edTable]
    /\ last' = NoCall
    /\ UNCHANGED <<dataVars, notEdVars, edExists, edTable, extRows>>

\* The statements of the block of _maybe_create_entity_date_table: the drop is
\* written in the generator whatever the adapter.
CreateStatements(adapter) ==
    <<(<<"drop", "inline", 0>>), (<<"create_table", Via(adapter), 0>>),
      (<<"create_index", Via(adapter), 0>>)>>

\* Variant: the table is created when it is absent and never dropped.
MaybeCreate_KeepRows ==
    /\ gen.pc = "create"
    /\ edExists' = TRUE
    /\ UNCHANGED edTable
    /\ LET g == IF ~edExists
                THEN [gen EXCEPT !.stmts = Begin(gen.stmts, CreateStatements(cfg.adapter))]
                ELSE gen
       IN gen' = IF Mode(cfg) = "labels" THEN [g EXCEPT !.pc = "labels_exists"]
                 ELSE AfterDate(g, cfg)
    /\ UNCHANGED <<dataVars, notEdVars, pre, last, extRows>>

\* _maybe_create_entity_date_table: drop, create and index in one transaction.
MaybeCreate ==
    /\ gen.pc = "create"
    /\ IF cfg.replace \/ ~edExists
       THEN /\ edExists' = TRUE
            /\ edTable' = EmptyTable(DOMAIN edTable)
       ELSE UNCHANGED <<edExists, edTable>>
    /\ LET g == IF cfg.replace \/ ~edExists
                THEN [gen EXCEPT !.stmts = Begin(gen.stmts, CreateStatements(cfg.adapter))]
                ELSE gen
       IN gen' = IF Mode(cfg) = "labels" THEN [g EXCEPT !.pc = "labels_exists"]
                 ELSE AfterDate(g, cfg)
    /\ UNCHANGED <<dataVars, notEdVars, pre, last, extRows>>

\* The per-date existence check and the skip.
CheckExisting ==
    /\ gen.pc = "check"
    /\ LET any_existing == CheckStatement(cfg.adapter, edTable, gen.dates[gen.i])
           g == [gen EXCEPT !.stmts = Begin(gen.stmts,
                                               <<(<<"check", Via(cfg.adapter), gen.i>>)>>)]
       IN gen' = IF any_existing = 1 THEN AfterDate(g, cfg)
                 ELSE [g EXCEPT !.pc = "insert"]
    /\ UNCHANGED <<dataVars, notEdVars, edExists, edTable, pre, last, extRows>>

\* The per-date insert of the (subset-joined) query result.
InsertDate ==
    /\ gen.pc = "insert"
    /\ LET d == gen.dates[gen.i]
       IN edTable' = IF cfg.class = "subset"
                     THEN SubsetInsertStatement(cfg.adapter, edTable, d, queryResult[d],
                                                cohortTable)
                     ELSE InsertStatement(cfg.adapter, edTable, d, queryResult[d])
    /\ gen' = AfterDate([gen EXCEPT !.stmts =
                             Begin(gen.stmts, <<(<<"insert", Via(cfg.adapter), gen.i>>)>>)],
                        cfg)
    /\ UNCHANGED <<dataVars, notEdVars, edExists, pre, last, extRows>>

\* _create_and_populate_entity_date_table_from_labels: table_exists(labels table).
LabelsTableExists ==
    /\ gen.pc = "labels_exists"
    /\ gen' = [gen EXCEPT !.pc = IF labelsExists THEN "labels_overlap" ELSE "has_data"]
    /\ UNCHANGED <<dataVars, notEdVars, edExists, edTable, pre, last, extRows>>

\* select distinct l.as_of_date from label_dates l join cohort_dates c using(as_of_date),
\* both sides cast with ::DATE
OverlapDates(tbl, lbl) ==
    {l.as_of_date : l \in Support(lbl)} \cap {DateOf(c.as_of_date) : c \in Support(tbl)}

\* The dates both tables hold: logged, nothing else.  The statement is written in
\* the generator whatever the adapter, with PostgreSQL's cast as_of_date::DATE, which
\* Oracle does not parse: there the execution error propagates to the caller.
LabelsOverlap ==
    /\ gen.pc = "labels_overlap"
    /\ LET g == [gen EXCEPT !.stmts = Begin(gen.stmts, <<(<<"overlap", "inline", 0>>)>>)]
       IN gen' = IF Backend(cfg.adapter) = "oracle"
                 THEN [g EXCEPT !.pc = "done", !.outcome = "backend_error"]
                 ELSE [g EXCEPT !.pc = "labels_insert",
                                !.logged = OverlapDates(edTable, labels)]
    /\ UNCHANGED <<dataVars, notEdVars, edExists, edTable, pre, last, extRows>>

LabelsInsert ==
    /\ gen.pc = "labels_insert"
    /\ edTable' = LabelsInsertStatement(cfg.adapter, edTable, labels)
    /\ gen' = [gen EXCEPT !.pc = "has_data",
                          !.stmts = Begin(gen.stmts,
                                          <<(<<"insert", Via(cfg.adapter), 0>>)>>)]
    /\ UNCHANGED <<dataVars, notEdVars, edExists, pre, last, extRows>>

\* Variant: an empty table is not reported.
CheckHasData_NoRaise ==
    /\ gen.pc = "has_data"
    /\ gen' = [gen EXCEPT !.pc = "has_duplicates"]
    /\ UNCHANGED <<dataVars, notEdVars, edExists, edTable, pre, last, extRows>>

\* if not table_has_data(...): raise ValueError(self._empty_table_message(as_of_dates))
CheckHasData ==
    /\ gen.pc = "has_data"
    /\ gen' = IF ~table_has_data(edExists, edTable)
              THEN [gen EXCEPT !.pc = "done", !.outcome = "empty"]
              ELSE [gen EXCEPT !.pc = "has_duplicates"]
    /\ UNCHANGED <<dataVars, notEdVars, edExists, edTable, pre, last, extRows>>

\* Variant: duplicates are not reported.
CheckDuplicates_NoRaise ==
    /\ gen.pc = "has_duplicates"
    /\ gen' = [gen EXCEPT !.pc = "done", !.outcome = "ok"]
    /\ UNCHANGED <<dataVars, notEdVars, edExists, edTable, pre, last, extRows>>

\* if table_has_duplicates(...): raise ValueError("Duplicates found in ...")
CheckDuplicates ==
    /\ gen.pc = "has_duplicates"
    /\ gen' = IF table_has_duplicates(edExists, edTable)
              THEN [gen EXCEPT !.pc = "done", !.outcome = "duplicates"]
              ELSE [gen EXCEPT !.pc = "done", !.outcome = "ok"]
    /\ UNCHANGED <<dataVars, notEdVars, edExists, edTable, pre, last, extRows>>

\* The call has returned or raised: control is back with the caller.
Return ==
    /\ gen.pc = "done"
    /\ last' = [valid |-> TRUE, dates |-> Range(gen.dates), failed |-> gen.faulted,
                seq |-> IF gen.faulted THEN gen.dates ELSE <<>>,
                before |-> IF ~gen.faulted THEN NoOrigin
                           ELSE IF gen.resume THEN gen.origin ELSE pre]
    /\ gen' = Idle
    /\ pre' = [exists |-> edExists, table |-> edTable]
    /\ UNCHANGED <<dataVars, notEdVars, edExists, edTable, extRows>>

\* Another writer adds a row to the entity-date table between two calls (creating
\* the table if there is none): the content a call can find.  Like every writer of
\* this repository it writes active rows; it may write any time of day.
ExternalInsert ==
    /\ gen.pc = "idle"
    /\ extRows < MaxExternalRows
    /\ \E r \in {x \in DOMAIN edTable : x.active = ActiveTrue(Backend(cfg.adapter))} :
          edTable' = InsertRows(edTable, {r})
    /\ edExists' = TRUE
    /\ extRows' = extRows + 1
    /\ last' = NoCall
    /\ pre' = [exists |-> TRUE, table |-> edTable']
    /\ UNCHANGED <<dataVars, notEdVars, gen>>

NextEntityDate ==
    \/ Generate
    \/ MaybeCreate
    \/ CheckExisting
    \/ InsertDate
    \/ LabelsTableExists
    \/ LabelsOverlap
    \/ LabelsInsert
    \/ CheckHasData
    \/ CheckDuplicates
    \/ Return
    \/ ExternalInsert

SpecEntityDate == InitEntityDate /\ [][NextEntityDate]_vars

(***************************************************************************)
(* Entity-date generation: the claims.                                     *)
(***************************************************************************)
\* The (entity_id, as_of_date) pairs a table holds more than once.
DuplicatePairs(tbl) ==
    {p \in Entities \X Timestamps :
        SumOver(tbl, {r \in DOMAIN tbl : r.entity_id = p[1] /\ r.as_of_date = p[2]}) > 1}

\* C1: a call of generate_entity_date_table with replace=False that repeats the
\* previous call (the same as-of-dates, source data and table untouched in between)
\* ends with the table exactly as the previous call left it, in query-replay mode
\* and in labels-derivation mode.
C1_Idempotent ==
    (gen.pc = "done" /\ gen.repeat /\ ~cfg.replace /\ Mode(cfg) \in {"query", "labels"})
        => (edExists = pre.exists /\ edTable = pre.table)

\* The second of two query-replay calls over two dates has ended, and the rows of
\* the table are those the first call inserted.
C1_Witness ==
    /\ gen.pc = "done" /\ gen.repeat /\ ~cfg.replace /\ Mode(cfg) = "query"
    /\ gen.outcome = "ok" /\ extRows = 0 /\ Len(gen.dates) = 2
    /\ RowCount(edTable) > 1

\* C2: when generate_entity_date_table (base or subset generator) returns normally,
\* no (entity_id, as_of_date) pair is in the table twice; with duplicates in the
\* table the call raises instead.
C2_NoDuplicates ==
    (gen.pc = "done" /\ gen.outcome = "ok") => DuplicatePairs(edTable) = {}

\* A call over a table that held a row of another writer has inserted rows and
\* returned normally.
C2_Witness ==
    /\ gen.pc = "done" /\ gen.outcome = "ok" /\ ~cfg.replace
    /\ extRows > 0 /\ pre.exists /\ RowCount(pre.table) > 0
    /\ RowCount(edTable) > RowCount(pre.table)

\* C3: EntityDateTableGenerator.generate_entity_date_table never returns normally
\* with an empty table, and a query that returns no entity for any supplied date,
\* on a newly created or replaced table, makes the call raise the empty-result error.
C3_NonEmpty ==
    /\ (gen.pc = "done" /\ gen.outcome = "ok" /\ cfg.class = "base")
            => RowCount(edTable) > 0
    /\ (/\ gen.pc = "done" /\ Mode(cfg) = "query"
        /\ (cfg.replace \/ ~pre.exists)
        /\ \A d \in Range(gen.dates) : Support(queryResult[d]) = {})
            => gen.outcome = "empty"

\* A query-replay call over dates for which the query returns nothing has raised,
\* with a query that does return entities for another date.
C3_Witness ==
    /\ gen.pc = "done" /\ gen.outcome = "empty" /\ Mode(cfg) = "query"
    /\ gen.dates # <<>>
    /\ \E d \in Days : Support(queryResult[d]) # {}

\* C4: labels-derivation with replace=False adds no row for a date the table
\* already had a row for, and inserts every distinct (entity_id, date) pair of the
\* labels table, once and active, for every labels date the table had no row for.
C4_LabelsDateGating ==
    (gen.pc = "done" /\ Mode(cfg) = "labels" /\ ~cfg.replace /\ labelsExists) =>
        /\ \A r \in DOMAIN edTable :
              (\E c \in Support(pre.table) : DateOf(c.as_of_date) = DateOf(r.as_of_date))
                  => edTable[r] = pre.table[r]
        /\ \A l \in Support(labels) :
              (~\E c \in Support(pre.table) : DateOf(c.as_of_date) = l.as_of_date)
                  => edTable[[entity_id |-> l.entity_id,
                              as_of_date |-> Midnight(l.as_of_date),
                              active |-> ActiveTrue(Backend(cfg.adapter))]] = 1

\* The same on the PostgreSQL backend only (adapter or fallback statements).
C4_LabelsDateGating_Pg ==
    Backend(cfg.adapter) = "postgresql" => C4_LabelsDateGating

(***************************************************************************)
(* ProtectedGroupsGenerator.                                               *)
(***************************************************************************)
AttrRecords == [entity_id : Entities, knowledge_date : KnowledgeDays, attr : Attributes]

\* (entity_id int, as_of_date date, <attribute> varchar, cohort_hash text)
PGRows == [entity_id : Entities, as_of_date : Days, attr : Attributes \cup {NULL},
           cohort_hash : Hashes]

SubsetsUpTo(S, n) == {Range(q) : q \in SeqsUpTo(S, n)}

\* The cohort entities of the as-of-date: from cohort where cohort.as_of_date = 'd'::date
CohortEntities(cohort, d) == {c.entity_id : c \in {x \in Support(cohort) : x.as_of_date = d}}

\* The join with the knowledge date allowed to equal the as-of-date.
Joined_NonStrict(src, e, d) == {f \in src : f.entity_id = e /\ d >= f.knowledge_date}

\* left join from_obj on cohort.entity_id = from_obj.entity_id
\*                   and cohort.as_of_date > from_obj.knowledge_date
Joined(src, e, d) == {f \in src : f.entity_id = e /\ d > f.knowledge_date}

\* distinct on (cohort.entity_id, cohort.as_of_date) ... order by ..., knowledge_date
\* desc: the attribute values the first row of an entity's group can carry (the
\* row of nulls the left join gives an entity without a joined record; any of the
\* rows that tie on the greatest knowledge date).
PgFirstRowAttrs(src, e, d) ==
    LET j == Joined(src, e, d)
    IN IF j = {} THEN {NULL}
       ELSE {f.attr : f \in {x \in j : \A y \in j : y.knowledge_date <= x.knowledge_date}}

\* ROW_NUMBER() OVER (PARTITION BY cohort.entity_id, cohort.as_of_date
\*                    ORDER BY knowledge_date DESC) ... WHERE rn = 1
OraFirstRowAttrs(src, e, d) ==
    LET j == Joined(src, e, d)
    IN IF j = {} THEN {NULL}
       ELSE {f.attr : f \in {x \in j : ~\E y \in j : y.knowledge_date > x.knowledge_date}}

\* The sets of rows the insert statement can insert for the date and the cohort.
PgProtectedGroupsInsert(cohort, src, d, h) ==
    {{[entity_id |-> e, as_of_date |-> d, attr |-> pick[e], cohort_hash |-> h] :
            e \in CohortEntities(cohort, d)} :
        pick \in {f \in [CohortEntities(cohort, d) -> Attributes \cup {NULL}] :
                    \A e \in CohortEntities(cohort, d) : f[e] \in PgFirstRowAttrs(src, e, d)}}

OraProtectedGroupsInsert(cohort, src, d, h) ==
    {{[entity_id |-> e, as_of_date |-> d, attr |-> pick[e], cohort_hash |-> h] :
            e \in CohortEntities(cohort, d)} :
        pick \in {f \in [CohortEntities(cohort, d) -> Attributes \cup {NULL}] :
                    \A e \in CohortEntities(cohort, d) : f[e] \in OraFirstRowAttrs(src, e, d)}}

\* generate(start_date, cohort_table_name, cohort_hash): the insert statement
ProtectedGroupsInsertStatement(adapter, cohort, src, d, h) ==
    CASE adapter = "oracle" -> OraProtectedGroupsInsert(cohort, src, d, h)
      [] adapter = "postgresql" -> PgProtectedGroupsInsert(cohort, src, d, h)
      [] OTHER -> PgProtectedGroupsInsert(cohort, src, d, h)

\* Variant: the check looks at the date only, whatever the cohort.
ProtectedGroupsCheckStatement_AnyCohort(adapter, tbl, d, h) ==
    Min(SumOver(tbl, {r \in DOMAIN tbl : r.as_of_date = d}), 1)

\* select 1 from t where as_of_date = 'd' and cohort_hash = 'h' limit 1
ProtectedGroupsCheckStatement(adapter, tbl, d, h) ==
    Min(SumOver(tbl, {r \in DOMAIN tbl : r.as_of_date = d /\ r.cohort_hash = h}), 1)

\* Variant: delete from t
DeleteCohort_All(tbl, h) == [r \in DOMAIN tbl |-> 0]

\* delete from t where cohort_hash = 'h'
DeleteCohort(tbl, h) == [r \in DOMAIN tbl |-> IF r.cohort_hash = h THEN 0 ELSE tbl[r]]

\* before, existed: history, the table and whether it existed when the call started
\* index_created: history, the call has run its create index statement
\* raised: the call was ended by a statement that failed in the backend
\* prev, repeat: history, the call that returned last, and whether the running call
\* repeats it (replace=False both times, the same as-of-dates, the same cohort)
PgIdle == [pc |-> "idle", replace |-> FALSE, dates |-> <<>>, i |-> 0, hash |-> "h1",
           table_is_new |-> FALSE, nrows |-> 0, before |-> <<>>, existed |-> FALSE,
           index_created |-> FALSE, raised |-> FALSE, repeat |-> FALSE,
           prev |-> [valid |-> FALSE, replace |-> FALSE, dates |-> {}, hash |-> "h1"]]

\* Where the loop over as_of_dates goes after the date at index i.
PgAfterDate(g) ==
    IF g.i < Len(g.dates)
    THEN [g EXCEPT !.pc = IF g.replace THEN "insert" ELSE "check", !.i = g.i + 1]
    ELSE [g EXCEPT !.pc = IF g.table_is_new THEN "index" ELSE "count", !.i = 0]

\* ProtectedGroupsGenerator(..., replace).generate_all_dates(as_of_dates, cohort, hash)
GenerateAllDates ==
    /\ pgen.pc = "idle"
    /\ \E ds \in SeqsUpTo(Days, MaxDates), h \in Hashes, rp \in BOOLEAN :
          pgen' = [PgIdle EXCEPT !.pc = "create", !.replace = rp, !.dates = ds, !.hash = h,
                                 !.before = pgTable, !.existed = pgExists,
                                 !.repeat = /\ pgen.prev.valid /\ ~rp /\ ~pgen.prev.replace
                                            /\ pgen.prev.dates = Range(ds)
                                            /\ pgen.prev.hash = h]
    /\ UNCHANGED <<notPgVars, pgAdapter, fromObj, pgExists, pgIndexed, pgTable>>

\* if not table_exists(...): create the table
PgMaybeCreate ==
    /\ pgen.pc = "create"
    /\ pgExists' = TRUE
    /\ LET g == [pgen EXCEPT !.table_is_new = ~pgExists]
       IN pgen' = IF g.replace THEN [g EXCEPT !.pc = "delete"] ELSE PgAfterDate(g)
    /\ UNCHANGED <<notPgVars, pgAdapter, fromObj, pgIndexed, pgTable>>

\* if self.replace: delete the rows of the cohort
PgDeleteCohort ==
    /\ pgen.pc = "delete"
    /\ pgTable' = DeleteCohort(pgTable, pgen.hash)
    /\ pgen' = PgAfterDate(pgen)
    /\ UNCHANGED <<notPgVars, pgAdapter, fromObj, pgExists, pgIndexed>>

\* if not self.replace: look for rows of the date and the cohort, skip if any
PgCheckExisting ==
    /\ pgen.pc = "check"
    /\ LET any_existing_rows ==
              ProtectedGroupsCheckStatement(pgAdapter, pgTable, pgen.dates[pgen.i], pgen.hash)
       IN pgen' = IF any_existing_rows = 1 THEN PgAfterDate(pgen)
                  ELSE [pgen EXCEPT !.pc = "insert"]
    /\ UNCHANGED <<notPgVars, pgAdapter, fromObj, pgExists, pgIndexed, pgTable>>

\* self.generate(start_date=as_of_date, ...)
PgGenerate ==
    /\ pgen.pc = "insert"
    /\ \E rows \in ProtectedGroupsInsertStatement(pgAdapter, cohortTable, fromObj,
                                                  pgen.dates[pgen.i], pgen.hash) :
          pgTable' = InsertRows(pgTable, rows)
    /\ pgen' = PgAfterDate(pgen)
    /\ UNCHANGED <<notPgVars, pgAdapter, fromObj, pgExists, pgIndexed>>

\* if table_is_new: create the index on (cohort_hash, as_of_date)
PgCreateIndex ==
    /\ pgen.pc = "index"
    /\ pgIndexed' = TRUE
    /\ pgen' = [pgen EXCEPT !.pc = "count", !.index_created = TRUE]
    /\ UNCHANGED <<notPgVars, pgAdapter, fromObj, pgExists, pgTable>>

\* select count(*): a warning when zero, and the call returns
PgCount ==
    /\ pgen.pc = "count"
    /\ pgen' = [pgen EXCEPT !.pc = "done", !.nrows = RowCount(pgTable)]
    /\ UNCHANGED <<notPgVars, pgAdapter, fromObj, pgExists, pgIndexed, pgTable>>

PgReturn ==
    /\ pgen.pc = "done"
    /\ pgen' = [PgIdle EXCEPT !.prev = [valid |-> ~pgen.raised, replace |-> pgen.replace,
                                       dates |-> Range(pgen.dates), hash |-> pgen.hash]]
    /\ UNCHANGED <<notPgVars, pgAdapter, fromObj, pgExists, pgIndexed, pgTable>>

\* The entity-date generator is not run in this specification.
NoEntityDate ==
    /\ cfg = [class |-> "base", hasQuery |-> FALSE, hasLabels |-> FALSE,
              replace |-> FALSE, adapter |-> pgAdapter]
    /\ queryResult = NoQueryResult
    /\ labelsExists = FALSE
    /\ labels = EmptyTable(EntityDates)
    /\ edExists = FALSE
    /\ edTable = EmptyTable(EDRows(Backend(cfg.adapter)))
    /\ gen = Idle
    /\ pre = [exists |-> FALSE, table |-> edTable]
    /\ last = NoCall
    /\ extRows = 0

InitProtectedGroups ==
    /\ pgAdapter \in Adapters
    /\ fromObj \in SubsetsUpTo(AttrRecords, MaxAttrRecords)
    /\ cohortTable \in CohortTables
    /\ pgExists = FALSE
    /\ pgIndexed = FALSE
    /\ pgTable = EmptyTable(PGRows)
    /\ pgen = PgIdle
    /\ NoEntityDate
    /\ mgAdapter = pgAdapter
    /\ model_group_keys = {}
    /\ procedure_exists = FALSE
    /\ model_groups = {}
    /\ mgLog = {}
    /\ mgLast = [valid |-> FALSE]
    /\ NoNoOpCalls /\ NoSchemaFactory /\ NoRace

NextProtectedGroups ==
    \/ GenerateAllDates
    \/ PgMaybeCreate
    \/ PgDeleteCohort
    \/ PgCheckExisting
    \/ PgGenerate
    \/ PgCreateIndex
    \/ PgCount
    \/ PgReturn

SpecProtectedGroups == InitProtectedGroups /\ [][NextProtectedGroups]_vars

(***************************************************************************)
(* Claims about the protected-groups table.                                *)
(***************************************************************************)
\* The attribute records of the entity known strictly before the day.
KnownBefore(e, d) == {f \in fromObj : f.entity_id = e /\ f.knowledge_date < d}

\* How many rows the table holds for the entity, the date and the cohort.
GroupRows(tbl, e, d, h) ==
    SumOver(tbl, {r \in DOMAIN tbl : r.entity_id = e /\ r.as_of_date = d /\ r.cohort_hash = h})

\* C5: every protected-groups row carries the attribute of a record of its entity
\* with the greatest knowledge date among those strictly before the row's
\* as-of-date, and null when the entity has no such record; once a call has gone
\* through its dates every cohort entity of each of them has a row.
C5_Recency ==
    /\ \A r \in Support(pgTable) :
          IF KnownBefore(r.entity_id, r.as_of_date) = {}
          THEN r.attr = NULL
          ELSE \E f \in KnownBefore(r.entity_id, r.as_of_date) :
                  /\ f.attr = r.attr
                  /\ \A g \in KnownBefore(r.entity_id, r.as_of_date) :
                        g.knowledge_date <= f.knowledge_date
    /\ pgen.pc = "done" =>
          \A i \in 1..Len(pgen.dates) : \A e \in CohortEntities(cohortTable, pgen.dates[i]) :
              GroupRows(pgTable, e, pgen.dates[i], pgen.hash) > 0

\* A row resolved between an older and a newer record of different attributes.
C5_Witness ==
    /\ pgen.pc = "done"
    /\ \E r \in Support(pgTable) : \E f, g \in fromObj :
          /\ f.entity_id = r.entity_id /\ g.entity_id = r.entity_id
          /\ f.knowledge_date < g.knowledge_date /\ g.knowledge_date < r.as_of_date
          /\ f.attr # g.attr /\ r.attr = g.attr

\* C6: the protected-groups table holds at most one row per entity for each
\* cohort hash and as-of-date.
C6_Unique ==
    \A e \in Entities, d \in Days, h \in Hashes : GroupRows(pgTable, e, d, h) <= 1

(***************************************************************************)
(* ModelGrouper and the adapters' get_model_group_id.                      *)
(***************************************************************************)
DEFAULT_KEYS == {"label_timespan", "label_name", "as_of_date_frequency",
                 "max_training_history", "state", "cohort_name", "feature_groups"}

ClassPaths == {"c1", "c2"}

\* Hyperparameter dicts: the empty one and one with a single key.
ParameterDicts == {<<>>, [C |-> 1]}

\* Feature names, one of them with a comma in it, and their order as strings.
FeatureNames == {"a", "a,b", "b"}
Rank(n) == CASE n = "a" -> 1 [] n = "a,b" -> 2 [] n = "b" -> 3

FeatureLists == SeqsUpTo(FeatureNames, MaxFeatures)

LabelNames == {"l1", "l2"}

\* The matrix metadata of a call: its feature names and the default keys.
MatrixMetadata(features, label) ==
    [k \in DEFAULT_KEYS \cup {"feature_names"} |->
        IF k = "feature_names" THEN features ELSE IF k = "label_name" THEN label ELSE "x"]

KeySets == {{}, {"feature_names"}, {"class_path", "parameters", "feature_names", "label_name"}}

\* The value that stands for Python's None where an id is expected.
None == 0

\* sorted(feature_names)
sorted(features) == SortSeq(features, LAMBDA x, y : Rank(x) < Rank(y))

\* ','.join(names)
RECURSIVE join(_)
join(names) ==
    IF names = <<>> THEN ""
    ELSE IF Len(names) = 1 THEN names[1]
    ELSE names[1] \o "," \o join(Tail(names))

\* json.dumps(d) of a dict with at most one key, json.dumps(d, sort_keys=True) of
\* any dict: the text, which the set of the dict's items determines.
json_dumps(d) == {<<k, d[k]>> : k \in DOMAIN d}

\* Variant: class_path goes into the tuple whether or not it is among the keys.
final_model_group_args_ClassPathAlways(keys, class_path, parameters, matrix_metadata) ==
    IF keys # {}
    THEN [class_path |-> class_path,
          parameters |-> IF "parameters" \in keys THEN parameters ELSE <<>>,
          feature_names |-> IF "feature_names" \in keys
                            THEN matrix_metadata["feature_names"] ELSE <<>>,
          model_config |-> [k \in keys \ {"class_path", "parameters", "feature_names"} |->
                                matrix_metadata[k]]]
    ELSE [class_path |-> class_path,
          parameters |-> parameters,
          feature_names |-> matrix_metadata["feature_names"],
          model_config |-> [k \in DEFAULT_KEYS |-> matrix_metadata[k]]]

\* ModelGrouper._final_model_group_args
final_model_group_args(keys, class_path, parameters, matrix_metadata) ==
    IF keys # {}
    THEN [class_path |-> IF "class_path" \in keys THEN class_path ELSE "",
          parameters |-> IF "parameters" \in keys THEN parameters ELSE <<>>,
          feature_names |-> IF "feature_names" \in keys
                            THEN matrix_metadata["feature_names"] ELSE <<>>,
          model_config |-> [k \in keys \ {"class_path", "parameters", "feature_names"} |->
                                matrix_metadata[k]]]
    ELSE [class_path |-> class_path,
          parameters |-> parameters,
          feature_names |-> matrix_metadata["feature_names"],
          model_config |-> [k \in DEFAULT_KEYS |-> matrix_metadata[k]]]

\* The arguments PostgreSQLAdapter.get_model_group_id hands to the procedure.
PgProcedureArgs(a) ==
    [class_path |-> a.class_path, parameters |-> json_dumps(a.parameters),
     feature_names |-> a.feature_names, model_config |-> json_dumps(a.model_config)]

\* The arguments OracleAdapter.get_model_group_id hands to the function.
OraProcedureArgs(a) ==
    [class_path |-> a.class_path, parameters |-> json_dumps(a.parameters),
     feature_names |-> join(sorted(a.feature_names)),
     model_config |-> json_dumps(a.model_config)]

ProcedureArgs(adapter, a) ==
    IF adapter = "oracle" THEN OraProcedureArgs(a) ELSE PgProcedureArgs(a)

\* The stored get_model_group_id: the tuple it compares and stores (the feature
\* array sorted), and its read-or-create.
StoredTuple(adapter, passed) ==
    IF adapter = "oracle" THEN passed
    ELSE [passed EXCEPT !.feature_names = sorted(@)]

ProcedureGroups(groups, tuple) ==
    IF \E g \in groups : g.tuple = tuple THEN groups
    ELSE groups \cup {[model_group_id |-> Cardinality(groups) + 1, tuple |-> tuple]}

ProcedureResult(groups, tuple) ==
    (CHOOSE g \in ProcedureGroups(groups, tuple) : g.tuple = tuple).model_group_id

\* Whether the adapter calls the procedure: only when the catalog lists it.
\* (The variant calls it without looking.)
CallsProcedure_Unchecked(exists) == TRUE

CallsProcedure(exists) == exists

\* The calls get_model_group_id makes on its raw connection when no statement
\* fails: raw_connection(), the catalog query, then with the function present the
\* call of the function, and close(); PostgreSQLAdapter commits after the call of
\* the function, OracleAdapter has no commit.
ConnectionCalls(adapter, exists) ==
    <<"raw_connection", "execute">>
        \o (IF ~exists THEN <<>>
            ELSE IF adapter = "oracle" THEN <<"execute">>
            ELSE <<"execute", "commit">>)
        \o <<"close">>

\* The calls made when the n-th statement raises: the error leaves the method from
\* cur.execute, and nothing is between it and the caller.
ConnectionCallsUntilError(n) ==
    <<"raw_connection">> \o [k \in 1..n |-> "execute"]

\* ModelGrouper.get_model_group_id(class_path, parameters, matrix_metadata, db_adapter)
GetModelGroupId ==
    /\ Cardinality(mgLog) < MaxCalls
    /\ \E class_path \in ClassPaths, parameters \in ParameterDicts,
          features \in FeatureLists, label \in LabelNames :
          LET model_group_args ==
                  final_model_group_args(model_group_keys, class_path, parameters,
                                         MatrixMetadata(features, label))
              passed == ProcedureArgs(mgAdapter, model_group_args)
              tuple == StoredTuple(mgAdapter, passed)
          IN IF CallsProcedure(procedure_exists)
             THEN /\ model_groups' = ProcedureGroups(model_groups, tuple)
                  /\ mgLog' = mgLog \cup
                        {[args |-> model_group_args, passed |-> passed,
                          model_group_id |-> ProcedureResult(model_groups, tuple),
                          input |-> [class_path |-> class_path,
                                     parameters |-> parameters,
                                     matrix_metadata |->
                                         MatrixMetadata(features, label)]]}
                  /\ mgLast' = [valid |-> TRUE, existed |-> procedure_exists,
                                before |-> model_groups, raised |-> FALSE,
                                model_group_id |-> ProcedureResult(model_groups, tuple),
                                conn |-> ConnectionCalls(mgAdapter, TRUE)]
             ELSE /\ mgLast' = [valid |-> TRUE, existed |-> procedure_exists,
                                before |-> model_groups, raised |-> FALSE,
                                model_group_id |-> None,
                                conn |-> ConnectionCalls(mgAdapter, FALSE)]
                  /\ UNCHANGED <<model_groups, mgLog>>
    /\ UNCHANGED <<notMgVars, mgAdapter, model_group_keys, procedure_exists>>

\* setup_stored_procedures: PostgreSQL runs the procedure's file, Oracle does nothing
SetupStoredProcedures ==
    /\ procedure_exists' = IF mgAdapter = "oracle" THEN procedure_exists ELSE TRUE
    /\ UNCHANGED <<notMgVars, mgAdapter, model_group_keys, model_groups, mgLog, mgLast>>

\* The function is installed or dropped on the backend by its administrator.
AlterProcedure ==
    /\ procedure_exists' = ~procedure_exists
    /\ UNCHANGED <<notMgVars, mgAdapter, model_group_keys, model_groups, mgLog, mgLast>>

NoProtectedGroups ==
    /\ pgAdapter = mgAdapter
    /\ fromObj = {}
    /\ cohortTable = EmptyTable(EntityDates)
    /\ pgExists = FALSE
    /\ pgIndexed = FALSE
    /\ pgTable = EmptyTable(PGRows)
    /\ pgen = PgIdle

InitModelGroup ==
    /\ mgAdapter \in {"postgresql", "oracle"}
    /\ model_group_keys \in KeySets
    /\ procedure_exists \in BOOLEAN
    /\ model_groups = {}
    /\ mgLog = {}
    /\ mgLast = [valid |-> FALSE, existed |-> FALSE, before |-> {}, raised |-> FALSE,
                 model_group_id |-> None, conn |-> <<>>]
    /\ NoProtectedGroups
    /\ NoEntityDate
    /\ NoNoOpCalls /\ NoSchemaFactory /\ NoRace

NextModelGroup ==
    \/ GetModelGroupId
    \/ SetupStoredProcedures
    \/ AlterProcedure

SpecModelGroup == InitModelGroup /\ [][NextModelGroup]_vars

(***************************************************************************)
(* Claims about model-group identity.                                      *)
(***************************************************************************)
\* The canonical tuple of a resolved call: the grouping arguments, the feature
\* list in sorted order.
Canonical(call) == [call.args EXCEPT !.feature_names = sorted(@)]

\* C7: calls with the same canonical tuple return the same id and leave one
\* stored group for it, and calls whose canonical tuples differ return different
\* ids.
C7_Identity ==
    /\ \A x, y \in mgLog :
          /\ Canonical(x) = Canonical(y) => x.model_group_id = y.model_group_id
          /\ Canonical(x) # Canonical(y) => x.model_group_id # y.model_group_id
    /\ \A x \in mgLog :
          Cardinality({g \in model_groups : \E y \in mgLog :
                          /\ Canonical(y) = Canonical(x)
                          /\ g.model_group_id = y.model_group_id}) = 1

\* The read-or-create alone: the same canonical tuple, the same id, on either adapter.
C7_SameTupleSameId ==
    \A x, y \in mgLog :
        Canonical(x) = Canonical(y) => x.model_group_id = y.model_group_id

\* The whole of C7 where the feature list goes to the procedure as an array.
C7_Identity_Pg == mgAdapter = "postgresql" => C7_Identity

\* C8: two resolved calls that differ only in the order of the feature list hand
\* the same feature argument to the procedure and get the same id.
C8_OrderIndependent ==
    \A x, y \in mgLog :
        Canonical(x) = Canonical(y) =>
            /\ x.passed.feature_names = y.passed.feature_names
            /\ x.model_group_id = y.model_group_id

\* The same where the adapter sorts before it joins.
C8_OrderIndependent_Ora == mgAdapter = "oracle" => C8_OrderIndependent

\* C9: a call made while the backend has no get_model_group_id function returns
\* None, raises nothing and leaves the stored groups as they were.
C9_MissingCapability ==
    (mgLast.valid /\ ~mgLast.existed) =>
        /\ mgLast.model_group_id = None
        /\ ~mgLast.raised
        /\ model_groups = mgLast.before

\* Groups are stored, the function is gone, and a call has returned None.
C9_Witness ==
    /\ mgLast.valid /\ ~mgLast.existed /\ ~procedure_exists
    /\ mgLast.model_group_id = None
    /\ model_groups # {}

(***************************************************************************)
(* One call of generate_entity_date_table as a function of the data, and   *)
(* the two adapters compared on it.                                        *)
(***************************************************************************)
\* The loop of the query-replay and subset modes from the date at index i on.
RECURSIVE PopulateFromQuery(_, _, _, _, _)
PopulateFromQuery(adapter, c, tbl, dates, i) ==
    IF i > Len(dates) THEN tbl
    ELSE IF CheckStatement(adapter, tbl, dates[i]) = 1
         THEN PopulateFromQuery(adapter, c, tbl, dates, i + 1)
         ELSE PopulateFromQuery(adapter, c,
                IF c.class = "subset"
                THEN SubsetInsertStatement(adapter, tbl, dates[i], queryResult[dates[i]],
                                           cohortTable)
                ELSE InsertStatement(adapter, tbl, dates[i], queryResult[dates[i]]),
                dates, i + 1)

\* The checks that end a call.
FinalChecks(c, exists, tbl) ==
    IF c.class = "base" /\ ~table_has_data(exists, tbl) THEN "empty"
    ELSE IF table_has_duplicates(exists, tbl) THEN "duplicates"
    ELSE "ok"

\* The call with the given adapter from the given table.
CallResult(adapter, c, exists, tbl, dates) ==
    LET created == IF c.replace \/ ~exists THEN EmptyTable(DOMAIN tbl) ELSE tbl
    IN CASE Mode(c) \in {"query", "subset"} ->
              LET t == PopulateFromQuery(adapter, c, created, dates, 1)
              IN [outcome |-> FinalChecks(c, TRUE, t), exists |-> TRUE, table |-> t]
         [] Mode(c) = "labels" /\ ~labelsExists ->
              [outcome |-> FinalChecks(c, TRUE, created), exists |-> TRUE, table |-> created]
         [] Mode(c) = "labels" /\ labelsExists /\ Backend(adapter) = "oracle" ->
              [outcome |-> "backend_error", exists |-> TRUE, table |-> created]
         [] Mode(c) = "labels" /\ labelsExists /\ Backend(adapter) # "oracle" ->
              LET t == LabelsInsertStatement(adapter, created, labels)
              IN [outcome |-> FinalChecks(c, TRUE, t), exists |-> TRUE, table |-> t]
         [] OTHER ->
              IF c.class = "subset"
              THEN [outcome |-> FinalChecks(c, exists, tbl), exists |-> exists, table |-> tbl]
              ELSE [outcome |-> "no_cohort", exists |-> exists, table |-> tbl]

\* The steps of a call add up to CallResult.
CallResultIsTheCall ==
    gen.pc = "done" =>
        CallResult(cfg.adapter, cfg, pre.exists, pre.table, gen.dates)
            = [outcome |-> gen.outcome, exists |-> edExists, table |-> edTable]

\* The rows of a table with the column active read as a truth value.
IsTrue(v) == v \in {"true", "1"}

Decoded(tbl) ==
    {<<r.entity_id, r.as_of_date, IsTrue(r.active), tbl[r]>> : r \in Support(tbl)}

\* The same rows as they are stored on the given backend.
Stored(tbl, backend) ==
    [r \in EDRows(backend) |->
        SumOver(tbl, {x \in DOMAIN tbl : /\ x.entity_id = r.entity_id
                                         /\ x.as_of_date = r.as_of_date
                                         /\ IsTrue(x.active) = IsTrue(r.active)})]

\* C10: from the same data a call with the PostgreSQL adapter and the same call
\* with the Oracle adapter end alike (both return, or both raise the same error)
\* with the same rows in the entity-date table, and the protected-groups
\* statements of the two adapters insert the same rows.
C10_Substitutable ==
    gen.pc = "done" =>
        LET pgRun == CallResult("postgresql", cfg, pre.exists,
                                Stored(pre.table, "postgresql"), gen.dates)
            oraRun == CallResult("oracle", cfg, pre.exists,
                                 Stored(pre.table, "oracle"), gen.dates)
        IN /\ pgRun.outcome = oraRun.outcome
           /\ pgRun.exists = oraRun.exists
           /\ Decoded(pgRun.table) = Decoded(oraRun.table)
           /\ \A d \in Days, h \in Hashes :
                 PgProtectedGroupsInsert(cohortTable, fromObj, d, h)
                     = OraProtectedGroupsInsert(cohortTable, fromObj, d, h)

\* The same for the calls that do not reach the labels statements.
C10_Substitutable_Query == (Mode(cfg) = "labels" /\ labelsExists) \/ C10_Substitutable

\* The protected-groups statements of the two adapters, on any cohort and source.
C10_ProtectedGroupsAgree ==
    \A d \in Days, h \in Hashes :
        /\ PgProtectedGroupsInsert(cohortTable, fromObj, d, h)
              = OraProtectedGroupsInsert(cohortTable, fromObj, d, h)
        /\ ProtectedGroupsCheckStatement("postgresql", pgTable, d, h)
              = ProtectedGroupsCheckStatement("oracle", pgTable, d, h)

(***************************************************************************)
(* Entity-date generation: configuration errors, statements, transactions. *)
(***************************************************************************)
\* C12: generate_entity_date_table of an EntityDateTableGenerator with neither a
\* query nor a labels table name raises the ValueError and has executed no statement
\* (no drop, create, check or insert): the entity-date table is as the call found it.
C12_ConfigErrorFirst ==
    (gen.pc = "done" /\ cfg.class = "base" /\ ~cfg.hasQuery /\ ~cfg.hasLabels)
        => /\ gen.outcome = "no_cohort"
           /\ gen.stmts = <<>>
           /\ edExists = pre.exists /\ edTable = pre.table

\* A generator with neither source and replace=True was called with dates over a
\* table holding a row, and has raised: the row is still there.
C12_Witness ==
    /\ gen.pc = "done" /\ gen.outcome = "no_cohort"
    /\ cfg.class = "base" /\ cfg.replace /\ Len(gen.dates) > 0
    /\ edExists /\ RowCount(edTable) > 0

\* C19: every statement the generators execute (drop, create table, create index,
\* existence check, insert, delete) runs in a transaction of its own: no two
\* statements of a call share a transaction.
C19_OneTransactionPerStatement ==
    \A i, j \in DOMAIN gen.stmts :
        i # j => gen.stmts[i].txn # gen.stmts[j].txn

\* C20: when a db_adapter is supplied, every statement the generator executes was
\* returned by a method of the adapter; none is built in the generator.
C20_ThroughAdapterOnly ==
    cfg.adapter # "none" =>
        \A i \in DOMAIN gen.stmts : gen.stmts[i].via = "adapter"

(***************************************************************************)
(* CohortTableGeneratorNoOp and ProtectedGroupsGeneratorNoOp.              *)
(***************************************************************************)
\* The database the no-op generators are called next to: an entity-date table or a
\* protected-groups table that other generators have filled.
InitNoOp ==
    /\ pgAdapter = "postgresql"
    /\ mgAdapter = "postgresql"
    /\ cfg = [class |-> "base", hasQuery |-> FALSE, hasLabels |-> FALSE,
              replace |-> FALSE, adapter |-> "postgresql"]
    /\ queryResult = NoQueryResult
    /\ labelsExists = FALSE
    /\ labels = EmptyTable(EntityDates)
    /\ cohortTable = EmptyTable(EntityDates)
    /\ edTable \in BagsUpTo(EDRows("postgresql"), MaxStoredRows)
    /\ edExists \in (IF RowCount(edTable) > 0 THEN {TRUE} ELSE BOOLEAN)
    /\ gen = Idle
    /\ pre = [exists |-> edExists, table |-> edTable]
    /\ last = NoCall
    /\ extRows = 0
    /\ fromObj = {}
    /\ pgTable \in (IF RowCount(edTable) > 0 THEN {EmptyTable(PGRows)}
                    ELSE BagsUpTo(PGRows, MaxStoredRows))
    /\ pgExists \in (IF RowCount(pgTable) > 0 THEN {TRUE} ELSE BOOLEAN)
    /\ pgIndexed = pgExists
    /\ pgen = PgIdle
    /\ model_group_keys = {}
    /\ procedure_exists = FALSE
    /\ model_groups = {}
    /\ mgLog = {}
    /\ mgLast = [valid |-> FALSE]
    /\ NoNoOpCalls /\ NoSchemaFactory /\ NoRace

notNoOpVars == <<edVars, pgVars, mgVars, sfVars, raceVars>>

\* What a method that only logs and returns leaves behind.
Returned(call, value) ==
    [call |-> call, raised |-> FALSE, returned |-> value, stmts |-> <<>>]

\* CohortTableGeneratorNoOp.generate_entity_date_table(as_of_dates)
NoOpGenerateEntityDateTable ==
    /\ \E as_of_dates \in SeqsUpTo(Days, MaxDates) :
          noop' = Returned("generate_entity_date_table", "None")
    /\ UNCHANGED notNoOpVars

\* Variant: clean_up as the parent class has it, dropping the entity-date table.
NoOpCleanUp_Inherited ==
    /\ noop' = [call |-> "clean_up", raised |-> FALSE, returned |-> "None",
                stmts |-> Begin(<<>>, <<(<<"drop", "inline", 0>>)>>)]
    /\ edExists' = FALSE
    /\ edTable' = EmptyTable(DOMAIN edTable)
    /\ UNCHANGED <<dataVars, gen, pre, last, extRows, pgVars, mgVars, sfVars, raceVars>>

\* CohortTableGeneratorNoOp.clean_up()
NoOpCleanUp ==
    /\ noop' = Returned("clean_up", "None")
    /\ UNCHANGED notNoOpVars

\* CohortTableGeneratorNoOp.entity_date_table_name
NoOpEntityDateTableName ==
    /\ noop' = Returned("entity_date_table_name", "None")
    /\ UNCHANGED notNoOpVars

\* ProtectedGroupsGeneratorNoOp.generate_all_dates(*args, **kwargs)
NoOpGenerateAllDates ==
    /\ \E as_of_dates \in SeqsUpTo(Days, MaxDates), cohort_hash \in Hashes :
          noop' = Returned("generate_all_dates", "None")
    /\ UNCHANGED notNoOpVars

\* ProtectedGroupsGeneratorNoOp.generate(*args, **kwargs)
NoOpGenerate ==
    /\ \E start_date \in Days, cohort_hash \in Hashes :
          noop' = Returned("generate", "None")
    /\ UNCHANGED notNoOpVars

\* ProtectedGroupsGeneratorNoOp.as_dataframe(*args, **kwargs): pd.DataFrame()
NoOpAsDataframe ==
    /\ \E as_of_dates \in SeqsUpTo(Days, MaxDates), cohort_hash \in Hashes :
          noop' = Returned("as_dataframe", {})
    /\ UNCHANGED notNoOpVars

NextNoOp ==
    \/ NoOpGenerateEntityDateTable
    \/ NoOpCleanUp
    \/ NoOpEntityDateTableName
    \/ NoOpGenerateAllDates
    \/ NoOpGenerate
    \/ NoOpAsDataframe

SpecNoOp == InitNoOp /\ [][NextNoOp]_vars

\* C11: every call of generate_entity_date_table or clean_up on the no-op cohort
\* generator and of generate_all_dates, generate or as_dataframe on the no-op
\* protected-groups generator returns without raising, executes no statement and
\* leaves every table as it was; entity_date_table_name is None and as_dataframe
\* returns an empty table.
C11_NoOp ==
    [][/\ ~noop'.raised
       /\ noop'.stmts = <<>>
       /\ <<edExists', edTable', pgExists', pgIndexed', pgTable'>>
             = <<edExists, edTable, pgExists, pgIndexed, pgTable>>
       /\ (noop'.call = "entity_date_table_name" => noop'.returned = "None")
       /\ (noop'.call = "as_dataframe" => noop'.returned = {})]_vars

\* clean_up of the no-op cohort generator has returned, and the entity-date table
\* still holds its row.
C11_Witness ==
    /\ noop.call = "clean_up" /\ ~noop.raised
    /\ edExists /\ RowCount(edTable) > 0

(***************************************************************************)
(* schema_factory: the process-wide factory of column types.               *)
(***************************************************************************)
\* A connection URL is the sequence of its parts: the dialect keyword, then host,
\* user, database name.  None and the empty string are both the empty sequence:
\* `if db_url:` is false for both.
UrlWords == {"postgresql", "postgres", "oracle", "mysql"}
Urls == SeqsUpTo(UrlWords, MaxUrlParts)
NoUrl == <<>>
Drivers == {"psycopg2", "oracledb"}
ItemTypes == {"String", "Text", "Integer", "Float"}

\* The dialect keyword of a URL: its first part.
Dialect(db_url) == IF db_url = NoUrl THEN "None" ELSE db_url[1]

\* kw in word, for the words of UrlWords
InWord(kw, word) == kw = word \/ (kw = "postgres" /\ word = "postgresql")

\* kw in db_url: the keyword occurs somewhere in the string
InUrl(kw, db_url) == \E i \in DOMAIN db_url : InWord(kw, db_url[i])

\* The driver probe: psycopg2, then oracledb, then the PostgreSQL default.
ProbeDrivers(drv) ==
    IF "psycopg2" \in drv THEN "postgresql"
    ELSE IF "oracledb" \in drv THEN "oracle"
    ELSE "postgresql"

_auto_detect_adapter(db_url, drv) ==
    IF db_url # NoUrl /\ (InUrl("postgresql", db_url) \/ InUrl("postgres", db_url))
    THEN "postgresql"
    ELSE IF db_url # NoUrl /\ InUrl("oracle", db_url)
    THEN "oracle"
    ELSE ProbeDrivers(drv)

\* Variant: the factory is bound once; a later set_schema_factory keeps the binding.
set_schema_factory_Once(factory, adapter, db_url, drv) ==
    IF factory # "None" THEN factory
    ELSE IF adapter = "None" THEN _auto_detect_adapter(db_url, drv) ELSE adapter

\* set_schema_factory(adapter, db_url): the adapter the global factory holds after it
set_schema_factory(factory, adapter, db_url, drv) ==
    IF adapter = "None" THEN _auto_detect_adapter(db_url, drv) ELSE adapter

\* Variant: an unset factory is returned as it is.
get_schema_factory_NoDefault(factory, drv) == [factory |-> factory, detected |-> FALSE]

\* get_schema_factory(): the factory returned (and left bound), and whether
\* set_schema_factory() was called to bind it
get_schema_factory(factory, drv) ==
    IF factory = "None"
    THEN [factory |-> set_schema_factory(factory, "None", NoUrl, drv), detected |-> TRUE]
    ELSE [factory |-> factory, detected |-> FALSE]

\* adapter.get_json_column_type(); None has no attribute json_column
get_json_column_type(adapter) ==
    CASE adapter = "postgresql" -> "JSONB"
      [] adapter = "oracle" -> "JSON"
      [] OTHER -> "AttributeError"

\* adapter.get_array_column_type(item_type)
get_array_column_type(adapter, item_type) ==
    CASE adapter = "postgresql" -> <<"ARRAY", item_type>>
      [] adapter = "oracle" ->
            IF item_type \in {"String", "Text"} THEN <<"VARRAY", "String(255)", "1000">>
            ELSE IF item_type = "Integer" THEN <<"VARRAY", "Integer", "1000">>
            ELSE <<"JSON">>
      [] OTHER -> <<"AttributeError">>

\* set: history, the arguments of the most recent set_schema_factory call and the
\* adapter that was bound when it was made
NoSet == [called |-> FALSE, adapter |-> "None", db_url |-> NoUrl, before |-> "None"]

InitSchemaFactory ==
    /\ schema_factory = "None"
    /\ drivers \in SUBSET Drivers
    /\ sfLast = [op |-> "none", item_type |-> "None", detected |-> FALSE,
                 returned |-> <<"None">>, set |-> NoSet]
    /\ mgAdapter = "postgresql"
    /\ model_group_keys = {}
    /\ procedure_exists = FALSE
    /\ model_groups = {}
    /\ mgLog = {}
    /\ mgLast = [valid |-> FALSE]
    /\ NoProtectedGroups
    /\ NoEntityDate
    /\ NoNoOpCalls /\ NoRace

notSfVars == <<edVars, pgVars, mgVars, noop, raceVars, drivers>>

\* set_schema_factory(adapter=None, db_url=None)
SetSchemaFactory ==
    /\ \E adapter \in {"None", "postgresql", "oracle"}, db_url \in Urls :
          /\ schema_factory' = set_schema_factory(schema_factory, adapter, db_url, drivers)
          /\ sfLast' = [op |-> "set_schema_factory", item_type |-> "None",
                        detected |-> adapter = "None", returned |-> <<"None">>,
                        set |-> [called |-> TRUE, adapter |-> adapter, db_url |-> db_url,
                                 before |-> schema_factory]]
    /\ UNCHANGED notSfVars

\* What a call through get_schema_factory leaves in the history.
AfterGet(op, item_type, got, value) ==
    [op |-> op, item_type |-> item_type, detected |-> got.detected, returned |-> value,
     set |-> IF got.detected
             THEN [called |-> TRUE, adapter |-> "None", db_url |-> NoUrl,
                   before |-> schema_factory]
             ELSE sfLast.set]

\* get_schema_factory()
GetSchemaFactory ==
    /\ LET got == get_schema_factory(schema_factory, drivers)
       IN /\ schema_factory' = got.factory
          /\ sfLast' = AfterGet("get_schema_factory", "None", got, <<got.factory>>)
    /\ UNCHANGED notSfVars

\* json_column(**kwargs)
JsonColumn ==
    /\ LET got == get_schema_factory(schema_factory, drivers)
       IN /\ schema_factory' = got.factory
          /\ sfLast' = AfterGet("json_column", "None", got,
                                <<get_json_column_type(got.factory)>>)
    /\ UNCHANGED notSfVars

\* array_column(item_type, **kwargs)
ArrayColumn ==
    /\ \E item_type \in ItemTypes :
          LET got == get_schema_factory(schema_factory, drivers)
          IN /\ schema_factory' = got.factory
             /\ sfLast' = AfterGet("array_column", item_type, got,
                                   get_array_column_type(got.factory, item_type))
    /\ UNCHANGED notSfVars

NextSchemaFactory ==
    \/ SetSchemaFactory
    \/ GetSchemaFactory
    \/ JsonColumn
    \/ ArrayColumn

SpecSchemaFactory == InitSchemaFactory /\ [][NextSchemaFactory]_vars

\* C13: with no factory bound, get_schema_factory, json_column and array_column run
\* auto-detection and leave a factory bound; get_schema_factory never returns None;
\* with a factory bound they use it without detecting again; once a factory is
\* bound, no operation leaves the module without one.
C13_FirstAccess ==
    [][/\ sfLast'.op \in {"get_schema_factory", "json_column", "array_column"} =>
             /\ schema_factory' # "None"
             /\ sfLast'.returned \notin {<<"None">>, <<"AttributeError">>}
             /\ sfLast'.detected = (schema_factory = "None")
             /\ (schema_factory # "None" => schema_factory' = schema_factory)
             /\ (sfLast'.op = "get_schema_factory" =>
                    sfLast'.returned = <<schema_factory'>>)
       /\ schema_factory # "None" => schema_factory' # "None"]_vars

\* json_column was the first access, with only the Oracle driver installed: the
\* factory was detected and bound, and the column is Oracle's.
C13_Witness ==
    /\ sfLast.op = "json_column" /\ sfLast.detected /\ sfLast.set.before = "None"
    /\ schema_factory = "oracle" /\ sfLast.returned = <<"JSON">>

\* The adapter a set_schema_factory call with the arguments of `set` binds.
AdapterOf(set, drv) ==
    IF set.adapter # "None" THEN set.adapter ELSE _auto_detect_adapter(set.db_url, drv)

\* C14: set_schema_factory with an explicit adapter binds that adapter whatever was
\* bound before, and every later json_column or array_column takes its column type
\* from the adapter of the most recent set_schema_factory call.
C14_Override ==
    /\ (sfLast.op = "set_schema_factory" /\ sfLast.set.adapter # "None")
          => schema_factory = sfLast.set.adapter
    /\ (sfLast.op = "json_column" /\ sfLast.set.called)
          => sfLast.returned = <<get_json_column_type(AdapterOf(sfLast.set, drivers))>>
    /\ (sfLast.op = "array_column" /\ sfLast.set.called)
          => sfLast.returned
                = get_array_column_type(AdapterOf(sfLast.set, drivers), sfLast.item_type)

\* The PostgreSQL adapter was bound, set_schema_factory was called with the Oracle
\* adapter, and a later array_column of strings is Oracle's VARRAY.
C14_Witness ==
    /\ sfLast.op = "array_column" /\ sfLast.item_type = "String"
    /\ sfLast.set.before = "postgresql" /\ sfLast.set.adapter = "oracle"
    /\ sfLast.returned = <<"VARRAY", "String(255)", "1000">>

\* C15: with no explicit adapter, a URL whose dialect keyword is postgresql or
\* postgres binds the PostgreSQL adapter and a URL whose dialect keyword is oracle
\* binds the Oracle adapter, whatever drivers are installed and whatever the rest of
\* the URL holds; with no URL or no recognized keyword the PostgreSQL driver is
\* probed, then the Oracle driver, and PostgreSQL is the default.
C15_DetectionOrder ==
    (sfLast.op = "set_schema_factory" /\ sfLast.set.adapter = "None") =>
        LET keyword == Dialect(sfLast.set.db_url)
        IN schema_factory =
              CASE keyword \in {"postgresql", "postgres"} -> "postgresql"
                [] keyword = "oracle" -> "oracle"
                [] OTHER -> ProbeDrivers(drivers)

\* The same for the URLs that name a backend in the dialect keyword only.
C15_DetectionOrder_DialectOnly ==
    (\E i \in DOMAIN sfLast.set.db_url :
        i > 1 /\ sfLast.set.db_url[i] \in {"postgresql", "postgres", "oracle"})
    \/ C15_DetectionOrder

(***************************************************************************)
(* Query-replay generation with statements that fail in the backend.       *)
(***************************************************************************)
\* What a statement that raises in its `with self.db_engine.begin()` block leaves:
\* the block rolls back, the exception leaves the loop and the call.
Raised(g, kind) ==
    [g EXCEPT !.pc = "done", !.outcome = "backend_error", !.faulted = TRUE,
              !.stmts = Begin(g.stmts, <<(<<kind, Via(cfg.adapter), g.i>>)>>)]

\* The existence check of the date at hand fails.
CheckExistingFails ==
    /\ gen.pc = "check"
    /\ gen' = Raised(gen, "check")
    /\ UNCHANGED <<dataVars, notEdVars, edExists, edTable, pre, last, extRows>>

\* Variant: the whole call is one transaction, so the failure takes the rows of the
\* earlier dates back.
InsertDateFails_Atomic ==
    /\ gen.pc = "insert"
    /\ gen' = Raised(gen, "insert")
    /\ edExists' = pre.exists
    /\ edTable' = pre.table
    /\ UNCHANGED <<dataVars, notEdVars, pre, last, extRows>>

\* The insert of the date at hand fails: its transaction rolls back.
InsertDateFails ==
    /\ gen.pc = "insert"
    /\ gen' = Raised(gen, "insert")
    /\ UNCHANGED <<dataVars, notEdVars, edExists, edTable, pre, last, extRows>>

InitEntityDateFaults ==
    /\ cfg \in {c \in Configs : c.class = "base" /\ Mode(c) = "query"}
    /\ InitEntityDate

NextEntityDateFaults ==
    \/ Generate
    \/ MaybeCreate
    \/ CheckExisting
    \/ CheckExistingFails
    \/ InsertDate
    \/ InsertDateFails
    \/ CheckHasData
    \/ CheckDuplicates
    \/ Return
    \/ ExternalInsert

SpecEntityDateFaults == InitEntityDateFaults /\ [][NextEntityDateFaults]_vars

\* The table a call without failures leaves after the dates before index k.
AfterDatesBefore(k) ==
    PopulateFromQuery(cfg.adapter, cfg,
                      IF cfg.replace \/ ~pre.exists THEN EmptyTable(DOMAIN pre.table)
                      ELSE pre.table,
                      SubSeq(gen.dates, 1, k - 1), 1)

\* C16: when the statement for date dk of a query-replay call fails, the error
\* reaches the caller, the failed statement is the last one executed (no retry,
\* nothing for dk+1..dn), and the table holds what the dates d1..dk-1 put there:
\* their rows stay, the failed statement leaves no row.
C16_PartialFailureVisible ==
    (gen.pc = "done" /\ gen.faulted) =>
        LET n == Len(gen.stmts)
            failed == gen.stmts[n]
        IN /\ gen.outcome = "backend_error"
           /\ failed.kind \in {"check", "insert"} /\ failed.date = gen.i
           /\ \A j \in 1..n : gen.stmts[j].date <= gen.i
           /\ Cardinality({j \in 1..n : /\ gen.stmts[j].kind = failed.kind
                                        /\ gen.stmts[j].date = failed.date}) = 1
           /\ edExists
           /\ edTable = AfterDatesBefore(gen.i)

\* The insert for the second of two dates has failed, the rows of the first date
\* are in the table, and the query has rows for the second date that are not.
C16_Witness ==
    /\ gen.pc = "done" /\ gen.faulted /\ gen.i = 2 /\ Len(gen.dates) = 2
    /\ gen.stmts[Len(gen.stmts)].kind = "insert"
    /\ gen.dates[1] # gen.dates[2]
    /\ RowCount(pre.table) = 0
    /\ MatchCount(edTable, Midnight(gen.dates[1])) > 0
    /\ Support(queryResult[gen.dates[2]]) # {}
    /\ MatchCount(edTable, Midnight(gen.dates[2])) = 0

\* C17: a call with replace=False that repeats a failed query-replay call over the
\* same dates, and itself meets no failure, ends as a single call without failures
\* from the table the failed call started from would have: the same rows, the same
\* outcome.
C17_Resumption ==
    (gen.pc = "done" /\ gen.resume /\ ~gen.faulted /\ ~cfg.replace) =>
        CallResult(cfg.adapter, cfg, gen.origin.exists, gen.origin.table, gen.dates)
            = [outcome |-> gen.outcome, exists |-> edExists, table |-> edTable]

\* The repeated call over two dates has returned: it skipped the first date, whose
\* rows the failed call had committed, and inserted the second.
C17_Witness ==
    /\ gen.pc = "done" /\ gen.resume /\ ~gen.faulted /\ ~cfg.replace
    /\ gen.outcome = "ok" /\ Len(gen.dates) = 2 /\ gen.dates[1] # gen.dates[2]
    /\ ~gen.origin.exists
    /\ ~\E j \in DOMAIN gen.stmts :
           gen.stmts[j].kind = "insert" /\ gen.stmts[j].date = 1
    /\ \E j \in DOMAIN gen.stmts :
           gen.stmts[j].kind = "insert" /\ gen.stmts[j].date = 2
    /\ MatchCount(edTable, Midnight(gen.dates[1])) > 0
    /\ MatchCount(edTable, Midnight(gen.dates[2])) > 0

(***************************************************************************)
(* Concurrent query-replay invocations on one entity-date table.           *)
(***************************************************************************)
Procs == 1..MaxRacers

\* inserted: history, the indexes of the dates the invocation ran its insert for
RacerIdle == [pc |-> "idle", dates |-> <<>>, i |-> 0, outcome |-> "none", inserted |-> {}]

InitRace ==
    /\ cfg \in {c \in Configs : c.class = "base" /\ Mode(c) = "query" /\ ~c.replace}
    /\ queryResult \in QueryResults
    /\ labelsExists = FALSE
    /\ labels = EmptyTable(EntityDates)
    /\ cohortTable = EmptyTable(EntityDates)
    /\ edExists \in BOOLEAN
    /\ edTable = EmptyTable(EDRows(Backend(cfg.adapter)))
    /\ gen = Idle
    /\ pre = [exists |-> edExists, table |-> edTable]
    /\ last = NoCall
    /\ extRows = 0
    /\ pgAdapter = cfg.adapter
    /\ fromObj = {}
    /\ pgExists = FALSE
    /\ pgIndexed = FALSE
    /\ pgTable = [r \in {} |-> 0]
    /\ pgen = [pc |-> "idle"]
    /\ mgAdapter = cfg.adapter
    /\ model_group_keys = {}
    /\ procedure_exists = FALSE
    /\ model_groups = {}
    /\ mgLog = {}
    /\ mgLast = [valid |-> FALSE]
    /\ NoNoOpCalls /\ NoSchemaFactory
    /\ racers = [p \in Procs |-> RacerIdle]
    /\ raced = FALSE

raceFrame == <<dataVars, gen, pre, last, extRows, pgVars, mgVars, noop, sfVars>>

Running(r) == r.pc \notin {"idle", "done"}

\* Invocation p moves to r; raced records that it did so while another invocation
\* was between its entry and its end.
RaceStep(p, r) ==
    /\ racers' = [racers EXCEPT ![p] = r]
    /\ raced' = (raced \/ \E q \in Procs \ {p} : Running(racers[q]))

\* Where the loop of an invocation goes after the date at index i.
RaceAfterDate(r) ==
    IF r.i < Len(r.dates) THEN [r EXCEPT !.pc = "check", !.i = r.i + 1]
    ELSE [r EXCEPT !.pc = "has_data", !.i = 0]

\* generate_entity_date_table(as_of_dates) of invocation p: entry
RaceGenerate(p) ==
    /\ racers[p].pc = "idle"
    /\ \E ds \in SeqsUpTo(Days, MaxDates) :
          RaceStep(p, [racers[p] EXCEPT !.pc = "table_exists", !.dates = ds])
    /\ UNCHANGED <<raceFrame, edExists, edTable>>

\* _maybe_create_entity_date_table with replace=False: table_exists(...)
RaceTableExists(p) ==
    /\ racers[p].pc = "table_exists"
    /\ RaceStep(p, IF edExists THEN RaceAfterDate(racers[p])
                   ELSE [racers[p] EXCEPT !.pc = "create"])
    /\ UNCHANGED <<raceFrame, edExists, edTable>>

\* _maybe_create_entity_date_table: the block that drops, creates and indexes
RaceCreate(p) ==
    /\ racers[p].pc = "create"
    /\ edExists' = TRUE
    /\ edTable' = EmptyTable(DOMAIN edTable)
    /\ RaceStep(p, RaceAfterDate(racers[p]))
    /\ UNCHANGED raceFrame

\* The existence check of invocation p, in its own transaction.
RaceCheckExisting(p) ==
    /\ racers[p].pc = "check"
    /\ LET r == racers[p]
           any_existing == CheckStatement(cfg.adapter, edTable, r.dates[r.i])
       IN RaceStep(p, IF any_existing = 1 THEN RaceAfterDate(r)
                      ELSE [r EXCEPT !.pc = "insert"])
    /\ UNCHANGED <<raceFrame, edExists, edTable>>

\* The insert of invocation p, in its own transaction.
RaceInsertDate(p) ==
    /\ racers[p].pc = "insert"
    /\ LET r == racers[p]
           d == r.dates[r.i]
       IN /\ edTable' = InsertStatement(cfg.adapter, edTable, d, queryResult[d])
          /\ RaceStep(p, RaceAfterDate([r EXCEPT !.inserted = r.inserted \cup {d}]))
    /\ UNCHANGED <<raceFrame, edExists>>

RaceCheckHasData(p) ==
    /\ racers[p].pc = "has_data"
    /\ RaceStep(p, IF ~table_has_data(edExists, edTable)
                   THEN [racers[p] EXCEPT !.pc = "done", !.outcome = "empty"]
                   ELSE [racers[p] EXCEPT !.pc = "has_duplicates"])
    /\ UNCHANGED <<raceFrame, edExists, edTable>>

RaceCheckDuplicates(p) ==
    /\ racers[p].pc = "has_duplicates"
    /\ RaceStep(p, IF table_has_duplicates(edExists, edTable)
                   THEN [racers[p] EXCEPT !.pc = "done", !.outcome = "duplicates"]
                   ELSE [racers[p] EXCEPT !.pc = "done", !.outcome = "ok"])
    /\ UNCHANGED <<raceFrame, edExists, edTable>>

NextRace ==
    \/ \E p \in Procs : RaceGenerate(p)
    \/ \E p \in Procs : RaceTableExists(p)
    \/ \E p \in Procs : RaceCreate(p)
    \/ \E p \in Procs : RaceCheckExisting(p)
    \/ \E p \in Procs : RaceInsertDate(p)
    \/ \E p \in Procs : RaceCheckHasData(p)
    \/ \E p \in Procs : RaceCheckDuplicates(p)

SpecRace == InitRace /\ [][NextRace]_vars

\* C18: the existence check and the insert of a date are separate transactions, so
\* two concurrent replace=False query-replay invocations on one table can both find
\* no rows for a date and both insert, leaving duplicate (entity_id, as_of_date)
\* pairs; when the invocations run one after the other no such pair arises.
C18_SerialNoDuplicates == ~raced => DuplicatePairs(edTable) = {}

\* Two invocations have ended, both ran the insert for the same date, and the table
\* holds an (entity_id, as_of_date) pair twice.
C18_Witness ==
    /\ \A p \in Procs : racers[p].pc = "done"
    /\ racers[1].inserted \cap racers[2].inserted # {}
    /\ DuplicatePairs(edTable) # {}
    /\ raced

(***************************************************************************)
(* Entity-date generation: what a call keeps, drops and inserts.           *)
(***************************************************************************)
\* The as_of_date values the statements of the running call can write.
ProducedDates ==
    IF Mode(cfg) = "labels" THEN {Midnight(l.as_of_date) : l \in Support(labels)}
    ELSE {Midnight(gen.dates[k]) : k \in DOMAIN gen.dates}

C21_Witness_Kept ==
    /\ gen.pc = "done" /\ gen.outcome = "ok" /\ ~cfg.replace /\ pre.exists
    /\ RowCount(edTable) > RowCount(pre.table)
    /\ \E r \in Support(pre.table) : edTable[r] = pre.table[r]

(***************************************************************************)
(* Protected groups: replace, skip, table and index.                       *)
(***************************************************************************)
\* The insert statement of generate raises: its transaction rolls back and the
\* exception leaves generate_all_dates, before the index and the count.
PgGenerateFails ==
    /\ pgen.pc = "insert"
    /\ pgen' = [pgen EXCEPT !.pc = "done", !.raised = TRUE]
    /\ UNCHANGED <<notPgVars, pgAdapter, fromObj, pgExists, pgIndexed, pgTable>>

\* The attributes source plays no part in what is created: it is left empty.
InitProtectedGroupsFaults ==
    /\ fromObj = {}
    /\ InitProtectedGroups

NextProtectedGroupsFaults ==
    \/ GenerateAllDates
    \/ PgMaybeCreate
    \/ PgDeleteCohort
    \/ PgCheckExisting
    \/ PgGenerate
    \/ PgGenerateFails
    \/ PgCreateIndex
    \/ PgCount
    \/ PgReturn

SpecProtectedGroupsFaults ==
    InitProtectedGroupsFaults /\ [][NextProtectedGroupsFaults]_vars

\* C22: generate_all_dates with replace=True leaves the rows of every other
\* cohort_hash as they were, and the rows of the given hash it leaves are rows of
\* the supplied as-of-dates and of cohort entities of those dates: none from
\* before the call is left that the call did not generate.
C22_ReplaceOneCohort ==
    (pgen.pc = "done" /\ pgen.replace) =>
        /\ \A r \in DOMAIN pgTable :
              r.cohort_hash # pgen.hash => pgTable[r] = pgen.before[r]
        /\ \A r \in Support(pgTable) :
              r.cohort_hash = pgen.hash =>
                  /\ \E k \in DOMAIN pgen.dates : pgen.dates[k] = r.as_of_date
                  /\ r.entity_id \in CohortEntities(cohortTable, r.as_of_date)
                  /\ pgTable[r] <= Cardinality({k \in DOMAIN pgen.dates :
                                                   pgen.dates[k] = r.as_of_date})

\* A call with replace=True for a date without cohort entities has returned: the
\* row of its cohort that was in the table is gone, the row of the other cohort is
\* still there.
C22_Witness ==
    /\ pgen.pc = "done" /\ pgen.replace
    /\ \E r \in Support(pgen.before) : r.cohort_hash = pgen.hash /\ pgTable[r] = 0
    /\ \E r \in Support(pgen.before) : r.cohort_hash # pgen.hash /\ pgTable[r] > 0

\* C23: generate_all_dates with replace=False inserts nothing for a date that had a
\* row of the cohort when the call started, and a row for every cohort entity of
\* each other supplied date, whatever rows other cohorts have on that date; a call
\* that repeats the previous one leaves the table as it found it.
C23_SkipPerDate ==
    (pgen.pc = "done" /\ ~pgen.replace) =>
        /\ \A k \in DOMAIN pgen.dates :
              LET d == pgen.dates[k]
              IN IF \E r \in Support(pgen.before) :
                        r.as_of_date = d /\ r.cohort_hash = pgen.hash
                 THEN \A r \in DOMAIN pgTable :
                         (r.as_of_date = d /\ r.cohort_hash = pgen.hash)
                             => pgTable[r] = pgen.before[r]
                 ELSE \A e \in CohortEntities(cohortTable, d) :
                         GroupRows(pgTable, e, d, pgen.hash) = 1
        /\ pgen.repeat => pgTable = pgen.before

\* The second of two calls over the same date and cohort has returned, and the
\* rows of the first are in the table.
C23_Witness ==
    /\ pgen.pc = "done" /\ ~pgen.replace /\ pgen.repeat
    /\ \E r \in Support(pgTable) :
          r.cohort_hash = pgen.hash /\ r.as_of_date \in Range(pgen.dates)

\* A call has generated the rows of its cohort on a date that held a row of the
\* other cohort.
C23_Witness_OtherCohort ==
    /\ pgen.pc = "done" /\ ~pgen.replace
    /\ \E r \in Support(pgen.before), q \in Support(pgTable) :
          /\ r.cohort_hash # pgen.hash /\ q.cohort_hash = pgen.hash
          /\ r.as_of_date = q.as_of_date /\ pgen.before[q] = 0

\* C24: generate_all_dates creates the table only when it was absent at the start
\* of the call, creates the index exactly in the calls that created the table, and
\* after every call that returns normally the table exists and carries the index.
C24_TableAndIndex ==
    (pgen.pc = "done" /\ ~pgen.raised) =>
        /\ pgen.table_is_new = ~pgen.existed
        /\ pgen.index_created = pgen.table_is_new
        /\ pgExists
        /\ pgIndexed

\* A call has returned normally after an earlier call had created the table and
\* failed at an insert: the table carries no index.
C24_Unindexed ==
    pgen.pc = "done" /\ ~pgen.raised /\ pgen.existed /\ pgExists /\ ~pgIndexed

\* The same without its last clause: what each call creates.
C24_CreatedTogether ==
    (pgen.pc = "done" /\ ~pgen.raised) =>
        /\ pgen.table_is_new = ~pgen.existed
        /\ pgen.index_created = pgen.table_is_new
        /\ pgExists


(***************************************************************************)
(* SubsetEntityDateTableGenerator: what a call checks and what it inserts. *)
(***************************************************************************)
\* C25: SubsetEntityDateTableGenerator.generate_entity_date_table never returns
\* normally while its table has zero rows, and with no query configured it fails
\* instead of returning normally.
C25_SubsetEnforces ==
    (gen.pc = "done" /\ cfg.class = "subset" /\ gen.outcome = "ok")
        => (RowCount(edTable) > 0 /\ cfg.hasQuery)

\* A subset call with a query has run its loop over a date, the join with the cohort
\* gave no entity, and the call has returned normally with an empty table.
C25_EmptySubset ==
    /\ gen.pc = "done" /\ Mode(cfg) = "subset" /\ gen.outcome = "ok"
    /\ gen.dates # <<>> /\ edExists /\ RowCount(edTable) = 0

\* A subset call without a query has returned normally.
C25_NoQuerySuccess ==
    gen.pc = "done" /\ cfg.class = "subset" /\ ~cfg.hasQuery /\ gen.outcome = "ok"

\* What the subset generator does enforce: no normal return with duplicates.
C25_DuplicatesOnly ==
    (gen.pc = "done" /\ cfg.class = "subset" /\ gen.outcome = "ok")
        => DuplicatePairs(edTable) = {}


\* The table a call works on once _maybe_create_entity_date_table has run: empty
\* when the call dropped or created it, else what the call found.
StartTable == IF cfg.replace \/ ~pre.exists THEN EmptyTable(DOMAIN edTable) ELSE pre.table

\* The entity is in the cohort table on date d.
InCohort(e, d) == \E c \in Support(cohortTable) : c.entity_id = e /\ c.as_of_date = d

\* C26: at the end of a call of the subset generator, every row the call inserted
\* is the one row (entity_id, D, true) of a supplied date D and of an entity that is
\* in the result of the user query for D and in the cohort table on D; and for
\* every supplied date that had no rows, every such entity has got that row.
C26_SubsetOfCohort ==
    (gen.pc = "done" /\ Mode(cfg) = "subset") =>
        /\ \A r \in DOMAIN edTable :
              /\ edTable[r] >= StartTable[r]
              /\ edTable[r] > StartTable[r] =>
                    /\ edTable[r] = StartTable[r] + 1
                    /\ StartTable[r] = 0
                    /\ r.as_of_date = Midnight(DateOf(r.as_of_date))
                    /\ DateOf(r.as_of_date) \in Range(gen.dates)
                    /\ r.active = ActiveTrue(Backend(cfg.adapter))
                    /\ r.entity_id \in Support(queryResult[DateOf(r.as_of_date)])
                    /\ InCohort(r.entity_id, DateOf(r.as_of_date))
        /\ \A d \in Range(gen.dates) :
              MatchCount(StartTable, Midnight(d)) = 0 =>
                 \A e \in Support(queryResult[d]) :
                    InCohort(e, d) =>
                        edTable[[entity_id |-> e, as_of_date |-> Midnight(d),
                                 active |-> ActiveTrue(Backend(cfg.adapter))]] = 1

\* A subset call has returned normally with a row of an entity of the cohort, for a
\* date for which the query also returns an entity that is not in the cohort on
\* that date.
C26_Witness ==
    /\ gen.pc = "done" /\ Mode(cfg) = "subset" /\ gen.outcome = "ok"
    /\ \E d \in Range(gen.dates) :
          /\ \E e \in Support(queryResult[d]) : ~InCohort(e, d)
          /\ \E r \in Support(edTable) :
                r.as_of_date = Midnight(d) /\ InCohort(r.entity_id, d)
                    /\ StartTable[r] = 0


(***************************************************************************)
(* Query-replay: the rows the loop inserts and the rows it leaves alone.   *)
(***************************************************************************)
\* C28: at the end of a query-replay call, every row the loop over as_of_dates
\* added to the table it started from is active, has the as_of_date of a supplied
\* date and the entity_id of an entity the user query returns for that date, and is
\* there once; the rows of every other as_of_date, and the rows of every supplied
\* date that had rows, are as they were; and every entity the query returns for a
\* supplied date that had no rows has its row.
C28_InsertsOnlyAsked ==
    (gen.pc = "done" /\ Mode(cfg) = "query") =>
        /\ \A r \in DOMAIN edTable :
              \/ edTable[r] = StartTable[r]
              \/ /\ StartTable[r] = 0 /\ edTable[r] = 1
                 /\ r.active = ActiveTrue(Backend(cfg.adapter))
                 /\ MatchCount(StartTable, r.as_of_date) = 0
                 /\ \E d \in Range(gen.dates) :
                       /\ r.as_of_date = Midnight(d)
                       /\ r.entity_id \in Support(queryResult[d])
        /\ \A d \in Range(gen.dates) :
              MatchCount(StartTable, Midnight(d)) = 0 =>
                 \A e \in Support(queryResult[d]) :
                    edTable[[entity_id |-> e, as_of_date |-> Midnight(d),
                             active |-> ActiveTrue(Backend(cfg.adapter))]] = 1

\* A query-replay call over two dates on an existing table has returned normally:
\* one date had a row and was skipped although the query returns another entity
\* for it, the other date got its row from a query result that names the entity
\* twice.
C28_Witness ==
    /\ gen.pc = "done" /\ Mode(cfg) = "query" /\ gen.outcome = "ok"
    /\ ~cfg.replace /\ pre.exists
    /\ \E d1, d2 \in Range(gen.dates) :
          /\ d1 # d2
          /\ MatchCount(StartTable, Midnight(d1)) > 0
          /\ \E e \in Support(queryResult[d1]) :
                \A r \in Support(StartTable) : r.entity_id # e
          /\ MatchCount(StartTable, Midnight(d2)) = 0
          /\ \E e \in Entities : queryResult[d2][e] = 2
          /\ MatchCount(edTable, Midnight(d2)) = 1


(***************************************************************************)
(* ModelGrouper: the grouping tuple.                                       *)
(***************************************************************************)
\* The keys that name an argument of the tuple rather than a matrix-metadata value.
TupleKeys == {"class_path", "parameters", "feature_names"}

\* What an input of get_model_group_id holds under a grouping key.
InputValue(in, k) ==
    CASE k = "class_path" -> <<"class_path", in.class_path>>
      [] k = "parameters" -> <<"parameters", json_dumps(in.parameters)>>
      [] OTHER -> <<k, in.matrix_metadata[k]>>

\* C27: with custom grouping keys the tuple of every call holds class_path,
\* parameters and feature_names as given when the key is among the configured ones
\* and '', {} and [] when it is not, and model_config holds exactly the other
\* configured keys with their matrix-metadata values, so that two calls whose
\* inputs agree on the configured keys have the same tuple; with no custom keys
\* the tuple holds the three as given and model_config exactly the seven default
\* keys with their matrix-metadata values.
C27_GroupingTuple ==
    /\ \A x \in mgLog :
          IF model_group_keys # {}
          THEN /\ x.args.class_path = IF "class_path" \in model_group_keys
                                      THEN x.input.class_path ELSE ""
               /\ x.args.parameters = IF "parameters" \in model_group_keys
                                      THEN x.input.parameters ELSE <<>>
               /\ x.args.feature_names = IF "feature_names" \in model_group_keys
                                         THEN x.input.matrix_metadata["feature_names"]
                                         ELSE <<>>
               /\ DOMAIN x.args.model_config = model_group_keys \ TupleKeys
               /\ \A k \in model_group_keys \ TupleKeys :
                     x.args.model_config[k] = x.input.matrix_metadata[k]
          ELSE /\ x.args.class_path = x.input.class_path
               /\ x.args.parameters = x.input.parameters
               /\ x.args.feature_names = x.input.matrix_metadata["feature_names"]
               /\ DOMAIN x.args.model_config = DEFAULT_KEYS
               /\ Cardinality(DOMAIN x.args.model_config) = 7
               /\ \A k \in DEFAULT_KEYS :
                     x.args.model_config[k] = x.input.matrix_metadata[k]
    /\ \A x, y \in mgLog :
          (/\ model_group_keys # {}
           /\ \A k \in model_group_keys : InputValue(x.input, k) = InputValue(y.input, k))
              => x.args = y.args

\* With feature_names the one configured key, two calls with the same feature
\* list, different class paths and different label names have been resolved to the
\* same tuple, with '' for the class path.
C27_Witness ==
    /\ model_group_keys = {"feature_names"}
    /\ \E x, y \in mgLog :
          /\ x.input.class_path # y.input.class_path
          /\ x.input.matrix_metadata["label_name"] # y.input.matrix_metadata["label_name"]
          /\ x.input.matrix_metadata["feature_names"] # <<>>
          /\ x.args = y.args /\ x.args.class_path = ""

\* With no custom keys, a call has been resolved to a tuple with the seven default
\* keys in model_config.
C27_Witness_Default ==
    /\ model_group_keys = {}
    /\ \E x \in mgLog :
          /\ x.args.class_path = x.input.class_path
          /\ x.input.parameters # <<>> /\ x.args.parameters = x.input.parameters
          /\ Cardinality(DOMAIN x.args.model_config) = 7


(***************************************************************************)
(* schema_factory: threads at the module global.                           *)
(*                                                                         *)
(* get_schema_factory reads _schema_factory, calls set_schema_factory()    *)
(* when it read None, and reads the global again to return it; nothing     *)
(* holds a lock, so a thread can be switched out between any two of these. *)
(* Each SchemaFactory(adapter) is a new object, numbered as it is made.    *)
(***************************************************************************)
Threads == 1..MaxThreads

\* No SchemaFactory object: the value of the global before the first binding.
NoInstance == 0

\* adapter: the local variable `adapter` of set_schema_factory
\* returned: the object get_schema_factory returned
ThreadIdle == [pc |-> "idle", op |-> "none", adapter |-> "None", returned |-> NoInstance]

\* created, detections: the SchemaFactory objects made and the runs of
\* _auto_detect_adapter so far; current: the object the global holds;
\* bound_by: whether its adapter was given or detected;
\* replaced: history, a factory with a detected adapter was bound over one with a
\* given adapter
NoFactory == [op |-> "none", created |-> 0, detections |-> 0, current |-> NoInstance,
              bound_by |-> "none", replaced |-> FALSE]

InitThreads ==
    /\ schema_factory = "None"
    /\ drivers \in SUBSET Drivers
    /\ sfLast = NoFactory
    /\ racers = [p \in Threads |-> ThreadIdle]
    /\ raced = FALSE
    /\ mgAdapter = "postgresql"
    /\ model_group_keys = {}
    /\ procedure_exists = FALSE
    /\ model_groups = {}
    /\ mgLog = {}
    /\ mgLast = [valid |-> FALSE]
    /\ NoProtectedGroups
    /\ NoEntityDate
    /\ NoNoOpCalls

threadFrame == <<edVars, pgVars, mgVars, noop, drivers, raced>>

\* A thread calls get_schema_factory().
CallGet(p) ==
    /\ racers[p].pc = "idle"
    /\ racers' = [racers EXCEPT ![p] = [ThreadIdle EXCEPT !.pc = "test",
                                                           !.op = "get_schema_factory"]]
    /\ UNCHANGED <<schema_factory, sfLast, threadFrame>>

\* A thread calls set_schema_factory(adapter) with an adapter: `if adapter is None`
\* is false and the next statement is the assignment.
CallSet(p) ==
    /\ racers[p].pc = "idle"
    /\ \E adapter \in {"postgresql", "oracle"} :
          racers' = [racers EXCEPT ![p] = [ThreadIdle EXCEPT !.pc = "bind",
                                                             !.op = "set_schema_factory",
                                                             !.adapter = adapter]]
    /\ UNCHANGED <<schema_factory, sfLast, threadFrame>>

\* if _schema_factory is None:
TestNone(p) ==
    /\ racers[p].pc = "test"
    /\ racers' = [racers EXCEPT ![p].pc = IF sfLast.current = NoInstance THEN "detect"
                                          ELSE "return"]
    /\ UNCHANGED <<schema_factory, sfLast, threadFrame>>

\* set_schema_factory(): adapter is None, adapter = _auto_detect_adapter(None)
AutoDetect(p) ==
    /\ racers[p].pc = "detect"
    /\ racers' = [racers EXCEPT ![p].pc = "bind",
                                ![p].adapter = _auto_detect_adapter(NoUrl, drivers)]
    /\ sfLast' = [sfLast EXCEPT !.detections = @ + 1]
    /\ UNCHANGED <<schema_factory, threadFrame>>

\* _schema_factory = SchemaFactory(adapter)
Bind(p) ==
    /\ racers[p].pc = "bind"
    /\ schema_factory' = racers[p].adapter
    /\ LET by == IF racers[p].op = "set_schema_factory" THEN "given" ELSE "detected"
       IN sfLast' = [sfLast EXCEPT !.created = @ + 1,
                                   !.current = sfLast.created + 1,
                                   !.bound_by = by,
                                   !.replaced = @ \/ (sfLast.bound_by = "given"
                                                        /\ by = "detected")]
    /\ racers' = [racers EXCEPT ![p].pc = IF racers[p].op = "set_schema_factory"
                                          THEN "done" ELSE "return"]
    /\ UNCHANGED threadFrame

\* return _schema_factory
ReturnFactory(p) ==
    /\ racers[p].pc = "return"
    /\ racers' = [racers EXCEPT ![p].pc = "done", ![p].returned = sfLast.current]
    /\ UNCHANGED <<schema_factory, sfLast, threadFrame>>

NextThreads ==
    \E p \in Threads :
        \/ CallGet(p)
        \/ CallSet(p)
        \/ TestNone(p)
        \/ AutoDetect(p)
        \/ Bind(p)
        \/ ReturnFactory(p)

SpecThreads == InitThreads /\ [][NextThreads]_vars

\* The threads whose get_schema_factory call has returned.
Got == {p \in Threads : racers[p].op = "get_schema_factory" /\ racers[p].pc = "done"}

\* C29: with threads at the unset global, _auto_detect_adapter runs at most once,
\* the get_schema_factory calls of threads that only get all return the same
\* SchemaFactory object, and no factory with a detected adapter is bound over a
\* factory that set_schema_factory was given the adapter of.
C29_ThreadSafe ==
    /\ sfLast.detections <= 1
    /\ (\A p \in Threads : racers[p].op # "set_schema_factory") =>
          \A p, q \in Got : racers[p].returned = racers[q].returned
    /\ ~sfLast.replaced

\* Detection ran twice: two threads read None before either had bound a factory.
C29_DetectedTwice == sfLast.detections > 1

\* Two get_schema_factory calls, no set_schema_factory call, two different objects.
C29_TwoInstances ==
    /\ \A p \in Threads : racers[p].op # "set_schema_factory"
    /\ \E p, q \in Got : racers[p].returned # racers[q].returned

\* A thread's set_schema_factory(oracle) was followed by the binding of a getter
\* that had read None before it, and the global holds the detected adapter.
C29_ExplicitLost ==
    /\ sfLast.replaced /\ schema_factory = "postgresql"
    /\ \E p \in Threads : racers[p].op = "set_schema_factory" /\ racers[p].pc = "done"
                            /\ racers[p].adapter = "oracle"

\* What holds without a lock: a get_schema_factory call never returns None, and
\* the global, once bound, stays bound.
C29_NeverNone ==
    /\ \A p \in Got : racers[p].returned # NoInstance
    /\ sfLast.created > 0 => (sfLast.current # NoInstance /\ schema_factory # "None")


(***************************************************************************)
(* get_model_group_id of the adapters: the raw connection.                 *)
(***************************************************************************)
\* A statement of get_model_group_id raises in the backend: the catalog query, or
\* with the function present the call of the function.  The error propagates from
\* cur.execute to the caller; the failed statement has written nothing.
GetModelGroupIdFails ==
    /\ \E n \in 1..(IF procedure_exists THEN 2 ELSE 1) :
          mgLast' = [valid |-> TRUE, existed |-> procedure_exists,
                     before |-> model_groups, raised |-> TRUE,
                     model_group_id |-> None,
                     conn |-> ConnectionCallsUntilError(n)]
    /\ UNCHANGED <<notMgVars, mgAdapter, model_group_keys, procedure_exists,
                   model_groups, mgLog>>

NextModelGroupFaults ==
    \/ NextModelGroup
    \/ GetModelGroupIdFails

SpecModelGroupFaults == InitModelGroup /\ [][NextModelGroupFaults]_vars

\* The connection of the last call has been closed.
Closed(conn) == conn # <<>> /\ conn[Len(conn)] = "close"

\* The last call committed before it closed its connection.
CommittedBeforeClose(conn) ==
    \E i, j \in DOMAIN conn : i < j /\ conn[i] = "commit" /\ conn[j] = "close"

\* C30: when a call of get_model_group_id of either adapter has ended, with the
\* function present or absent or by a statement that raised, the raw connection it
\* opened is closed, and if it created a group it committed before closing.
C30_ClosedAndCommitted ==
    mgLast.valid =>
        /\ Closed(mgLast.conn)
        /\ model_groups # mgLast.before => CommittedBeforeClose(mgLast.conn)

\* A call was ended by the error of its second statement with the connection open.
C30_Unclosed ==
    /\ mgLast.valid /\ mgLast.raised /\ mgLast.existed
    /\ Len(mgLast.conn) = 3 /\ ~Closed(mgLast.conn)

\* A call with the Oracle adapter created a group and closed the connection
\* without a commit.
C30_Uncommitted ==
    /\ mgLast.valid /\ ~mgLast.raised /\ mgAdapter = "oracle"
    /\ model_groups # mgLast.before
    /\ Closed(mgLast.conn) /\ ~CommittedBeforeClose(mgLast.conn)

\* What holds: a call that returns has closed its connection, and with the
\* PostgreSQL adapter a call that created a group has committed before.
C30_ClosedOnReturn ==
    (mgLast.valid /\ ~mgLast.raised) =>
        /\ Closed(mgLast.conn)
        /\ (mgAdapter = "postgresql" /\ model_groups # mgLast.before)
              => CommittedBeforeClose(mgLast.conn)

====
